---- MODULE Spec2Model ----
(***************************************************************************)
(* Differential synchronisation engine of bcdc_2_bcdc: records and their   *)
(* comparable projection (CKANRecord), datasets and their delta            *)
(* (CKANDataSet.getDelta), the materialisation of a delta                  *)
(* (CKANDataSetDeltas.getAddData / getUpdateData), the id remap cache      *)
(* (DataCache / CacheLoader) and the custom transformers                   *)
(* (CustomTransformers.packages).                                          *)
(*                                                                         *)
(* JSON values are tagged records so that None and strings can be compared *)
(* with one another.  A JSON object is a function from field names to      *)
(* values.  The transformation config (module CKANTransform), the          *)
(* constants module, the Diff module and the CKAN api wrapper are not part *)
(* of the sources at hand; their definitions below follow the written      *)
(* specification.                                                          *)
(***************************************************************************)
EXTENDS Bags, FiniteSets, Integers, Sequences, TLC

VARIABLES
    kind,        \* dataType of the two datasets being synchronised
    ignoreList,  \* transformation config: ignore_list of every kind
    remote,      \* what the CKAN api of each instance returns, per kind and origin
    srcData,     \* srcCKANDataset.jsonData  (list of json objects)
    destData,    \* destCKANDataset.jsonData (list of json objects)
    origSrc,     \* srcData as it was when the dataset was constructed
    origDest,    \* destData as it was when the dataset was constructed
    dataCache,   \* DataCache: cacheStruct, reverseStruct
    delta,       \* CKANDataSetDeltas: adds, deletes, updates
    addResult,   \* what getAddData returned (or that it raised)
    updResult,   \* what getUpdateData returned (or that it raised)
    applied,     \* the sizes of the last delta that was applied to the destination
    round,       \* number of getDelta calls made so far
    pc,          \* position of the driver
    args,        \* the objects a single call is made on, and its arguments
    ret          \* what that call returned (or that it raised)

vars == <<kind, ignoreList, remote, srcData, destData, origSrc, origDest,
          dataCache, delta, addResult, updResult, applied, round, pc, args, ret>>

---------------------------------------------------------------------------
(* Bounds of the model *)

\* number of distinct unique-key values ("name") a dataset can hold
NumKeys == 2
\* number of getDelta calls in one behaviour
MaxRounds == 2

---------------------------------------------------------------------------
(* JSON values *)

None == [t |-> "null", s |-> ""]
Str(x) == [t |-> "str", s |-> x]

Num(n) == [t |-> "int", n |-> n]
Bool(b) == [t |-> "bool", b |-> b]
List(e) == [t |-> "list", e |-> e]
Dict(d) == [t |-> "dict", d |-> d]

\* what a call leaves when it raised instead of returning a value
Raised == [t |-> "raised", s |-> "TypeError"]

\* python truthiness of a value ("if value:")
Truthy(v) ==
    CASE v.t = "str" -> v.s # ""
      [] v.t = "int" -> v.n # 0
      [] v.t = "bool" -> v.b
      [] v.t = "list" -> v.e # <<>>
      [] v.t = "dict" -> DOMAIN v.d # {}
      [] OTHER -> FALSE

\* python type(value)
TypeOf(v) == v.t

EmptyTable == [x \in {} |-> None]

KeyNames == <<"k1", "k2", "k3", "k4">>
SrcIdNames == <<"s1", "s2", "s3", "s4">>
DestIdNames == <<"d1", "d2", "d3", "d4">>

KeyIndexes == 1..NumKeys
Keys == {Str(KeyNames[i]) : i \in KeyIndexes}

\* the api calls after which no further cache query is started
MaxCalls == 2

\* position of a unique key in python's string order
KeyIndex(k) == CHOOSE i \in 1..Len(KeyNames) : Str(KeyNames[i]) = k

\* sorted(list(S)) for a set of unique keys
SortedKeys(S) == SelectSeq([i \in 1..Len(KeyNames) |-> Str(KeyNames[i])], LAMBDA k : k \in S)

\* every order in which python can iterate over a set
SetOrders(S) == {q \in [1..Cardinality(S) -> S] : \A i, j \in 1..Cardinality(S) : i # j => q[i] # q[j]}

SeqToSet(q) == {q[i] : i \in 1..Len(q)}

---------------------------------------------------------------------------
(* constants module *)

VALID_TRANSFORM_TYPES == {"users", "groups", "organizations", "packages", "resources"}

DATA_SOURCE == <<"src", "dest">>

---------------------------------------------------------------------------
(* CKANTransform.TransformationConfig: per-kind queries *)

getUniqueField(dataType) == "name"

getIgnoreList(dataType) == ignoreList[dataType]

\* a user-field schema: True, a dict of schemas, or a list of one schema
Leaf == [t |-> "bool"]
Object(m) == [t |-> "dict", m |-> m]
ListOf(s) == [t |-> "list", s |-> s]

\* the schema that names fields of scalars
Fields(S) == Object([f \in S |-> Leaf])

getUserPopulatedProperties(dataType) ==
    CASE dataType = "users" -> Fields({"name", "fullname"})
      [] dataType = "packages" -> Fields({"name", "owner_org", "security_class", "resource_status"})
      [] dataType = "organizations" -> Fields({"name", "title", "url"})
      [] OTHER -> Fields({"name", "title"})

getFieldsToIncludeOnAdd(dataType) ==
    IF dataType = "users" THEN <<"id">> ELSE <<>>

getFieldsToIncludeOnUpdate(dataType) == <<"id">>

getRequiredFieldDefaultValues(dataType) ==
    IF dataType = "packages" THEN [f \in {"license_id"} |-> Str("22")] ELSE EmptyTable

getTypeEnforcement(dataType) ==
    CASE dataType = "users" -> [f \in {"fullname"} |-> Str("")]
      [] dataType = "packages" -> [f \in {"more_info"} |-> List(<<>>)]
      [] OTHER -> EmptyTable

getIdFieldConfigs(dataType) ==
    IF dataType = "packages"
    THEN <<[property |-> "owner_org", obj_type |-> "organizations", obj_field |-> "id"]>>
    ELSE <<>>

getCustomUpdateTransformations(dataType) ==
    IF dataType = "packages" THEN <<"packageTransform">> ELSE <<>>

getFieldMappings(dataType) ==
    <<[auto_populated_field |-> "id", user_populated_field |-> "name"]>>

---------------------------------------------------------------------------
(* CustomTransformers.packages *)

validSecurityClasses ==
    {Str("HIGH-CABINET"), Str("HIGH-CLASSIFIED"), Str("HIGH-SENSITIVITY"), Str("LOW-PUBLIC"),
     Str("LOW-SENSITIVITY"), Str("MEDIUM-PERSONAL"), Str("MEDIUM-SENSITIVITY")}

validDownloadAudiences == {Str("Government"), Str("Named users"), Str("Public")}

fixSecurityClass(record) ==
    IF "security_class" \in DOMAIN record /\ Truthy(record["security_class"])
       /\ record["security_class"] \notin validSecurityClasses
    THEN IF record["security_class"] = Str("HIGH-CONFIDENTIAL")
         THEN [record EXCEPT !["security_class"] = Str("HIGH-CLASSIFIED")]
         ELSE [record EXCEPT !["security_class"] = Str("HIGH-SENSITIVITY")]
    ELSE record

fixResourceStatus(record) ==
    IF "resource_status" \in DOMAIN record
       /\ record["resource_status"] = Str("historicalArchive")
       /\ "retention_expiry_date" \notin DOMAIN record
    THEN ("retention_expiry_date" :> Str("2222-02-02")) @@ record
    ELSE record

fixDownloadAudience(record) ==
    IF "download_audience" \in DOMAIN record
    THEN IF record["download_audience"] = None
         THEN [record EXCEPT !["download_audience"] = Str("Public")]
         ELSE IF record["download_audience"] \notin validDownloadAudiences
              THEN [record EXCEPT !["download_audience"] = Str("Public")]
              ELSE record
    ELSE record

\* inputDataStruct is a list or a dict of payloads
packageTransform(inputDataStruct) ==
    [iterVal \in DOMAIN inputDataStruct |->
        fixSecurityClass(fixDownloadAudience(fixResourceStatus(inputDataStruct[iterVal])))]

(* CustomTransformers.MethodMapping *)

\* names of the classes of the module that are named after a kind
getClasses == {"packages"}

\* the methods of class packages
packagesMethodNames ==
    {"packageTransform", "fixSecurityClass", "fixResourceStatus", "fixDownloadAudience", "fixMoreInfo"}

\* MethodMapping.__init__ returns without raising InvalidCustomTransformation
validate(dataType, customMethodNames) ==
    /\ dataType \in VALID_TRANSFORM_TYPES
    /\ dataType \in getClasses
    /\ \A i \in 1..Len(customMethodNames) : customMethodNames[i] \in packagesMethodNames

\* the configured method applied to a collection of payloads; the only method
\* the transformation config names is packageTransform
getCustomMethodCall(methodName, inputDataStruct) ==
    IF methodName = "packageTransform" THEN packageTransform(inputDataStruct) ELSE inputDataStruct

RECURSIVE callCustomMethods(_, _, _)
callCustomMethods(customMethodNames, i, inputDataStruct) ==
    IF i > Len(customMethodNames) THEN inputDataStruct
    ELSE callCustomMethods(customMethodNames, i + 1,
                           getCustomMethodCall(customMethodNames[i], inputDataStruct))

---------------------------------------------------------------------------
(* CKANRecord *)

\* the record class a dataset class constructs: CKANOrganizationDataSet
\* constructs CKANGroupRecord, whose dataType is groups
recordConstructor(dataSetType) ==
    IF dataSetType = "organizations" THEN "groups" ELSE dataSetType

\* getComparableStruct(struct, flds2Include) on a value of any type; Raised
\* where python raises TypeError ("key not in struct", "struct[key] = None"
\* or "for structElem in struct" on a value that does not support it)
RECURSIVE comparable(_, _)
comparable(struct, flds2Include) ==
    CASE flds2Include.t = "list" ->
            IF flds2Include.s.t = "dict"
            THEN CASE struct.t = "list" ->
                        LET elems == [i \in 1..Len(struct.e) |-> comparable(struct.e[i], flds2Include.s)]
                        IN  IF \E i \in 1..Len(elems) : elems[i] = Raised THEN Raised ELSE List(elems)
                   [] struct.t = "dict" ->
                        \* iterates over the keys, which are strings
                        IF DOMAIN struct.d = {} \/ DOMAIN flds2Include.s.m = {}
                        THEN List([i \in 1..Cardinality(DOMAIN struct.d) |-> Dict(EmptyTable)])
                        ELSE Raised
                   [] struct.t = "str" ->
                        \* iterates over the characters
                        IF struct.s = "" THEN List(<<>>) ELSE Raised
                   [] OTHER -> Raised
            ELSE List(<<>>)
      [] flds2Include.t = "dict" ->
            IF DOMAIN flds2Include.m = {} THEN Dict(EmptyTable)
            ELSE IF struct.t # "dict" THEN Raised
            ELSE LET newStruct == [key \in DOMAIN flds2Include.m |->
                                      comparable(IF key \in DOMAIN struct.d THEN struct.d[key] ELSE None,
                                                 flds2Include.m[key])]
                 IN  IF \E key \in DOMAIN newStruct : newStruct[key] = Raised
                     THEN Raised ELSE Dict(newStruct)
      [] OTHER -> struct

\* the value itself after getComparableStruct ran on it: "struct[key] = None"
\* for every key of the schema a dict lacks
RECURSIVE afterComparable(_, _)
afterComparable(struct, flds2Include) ==
    CASE flds2Include.t = "list" /\ flds2Include.s.t = "dict" /\ struct.t = "list" ->
            List([i \in 1..Len(struct.e) |-> afterComparable(struct.e[i], flds2Include.s)])
      [] flds2Include.t = "dict" /\ struct.t = "dict" ->
            Dict([key \in DOMAIN struct.d \cup DOMAIN flds2Include.m |->
                     IF key \notin DOMAIN flds2Include.m THEN struct.d[key]
                     ELSE afterComparable(IF key \in DOMAIN struct.d THEN struct.d[key] ELSE None,
                                          flds2Include.m[key])])
      [] OTHER -> struct

\* a projection whose list branch appends every projected element twice
getComparableStruct_twice(struct, flds2Include) ==
    LET newStruct == comparable(Dict(struct), flds2Include)
    IN  IF newStruct.t = "dict"
        THEN [key \in DOMAIN newStruct.d |->
                 IF newStruct.d[key].t = "list"
                 THEN List(newStruct.d[key].e \o newStruct.d[key].e)
                 ELSE newStruct.d[key]]
        ELSE newStruct

\* the projection of the json object of a record (a dict) on a schema: the
\* dict returned, or Raised
getComparableStruct(struct, flds2Include) ==
    LET newStruct == comparable(Dict(struct), flds2Include)
    IN  IF newStruct.t = "dict" THEN newStruct.d ELSE newStruct

\* the json object of a record after getComparableStruct ran on it
structAfterComparable(struct, flds2Include) == afterComparable(Dict(struct), flds2Include).d

\* DataCell.generateNewCell on a scalar property: the enclosing object is
\* dropped from its list when the property is the unique field of the
\* embedding kind and its value is in that kind's ignore list
cellIncluded(parentType, key, value) ==
    ~(parentType \in VALID_TRANSFORM_TYPES /\ key = getUniqueField(parentType)
      /\ value \in getIgnoreList(parentType))

\* DataCell(struct): ignoreList and ignoreFld are those of parentType, with
\* which they are set and copied; "none" stands for a parentType of None
DataCell(struct) == [struct |-> struct, include |-> TRUE, parentType |-> "none"]

\* DataCell.generateNewCell(key) for a property of a dict: the new cell, and
\* the include flag of the cell it was generated from
generateNewCell(cell, key) ==
    LET parentType == IF key \in VALID_TRANSFORM_TYPES THEN key ELSE cell.parentType
    IN  [newCell |-> [struct |-> cell.struct.d[key], include |-> cell.include,
                      parentType |-> parentType],
         include |-> cell.include /\ cellIncluded(parentType, key, cell.struct.d[key])]

\* the order in which python visits the properties of a dict; the dicts of
\* an embedded list are dropped or kept whole in every order
RECURSIVE visitOrder(_)
visitOrder(keys) ==
    IF keys = {} THEN <<>>
    ELSE LET first == CHOOSE key \in keys : TRUE
         IN  <<first>> \o visitOrder(keys \ {first})

\* removeEmbeddedIgnores(dataCell): the cell it returns.  A dict is changed
\* in place, so a list holds the stripped dicts; deleteIndexes gives a list
\* cell a new list, which only the dict branch copies back
RECURSIVE removeFromCell(_)
RECURSIVE removeFromProperties(_, _, _)
removeFromProperties(dataCell, order, i) ==
    IF i > Len(order) THEN dataCell
    ELSE LET generated == generateNewCell(dataCell, order[i])
             newCell == removeFromCell(generated.newCell)
         IN  removeFromProperties(
                 [dataCell EXCEPT !.include = generated.include,
                                  !.struct = Dict((order[i] :> newCell.struct) @@ dataCell.struct.d)],
                 order, i + 1)

removeFromCell(dataCell) ==
    CASE dataCell.struct.t = "dict" ->
            removeFromProperties(dataCell, visitOrder(DOMAIN dataCell.struct.d), 1)
      [] dataCell.struct.t = "list" ->
            LET newCells == [listPos \in 1..Len(dataCell.struct.e) |->
                                removeFromCell([struct |-> dataCell.struct.e[listPos],
                                                include |-> dataCell.include,
                                                parentType |-> dataCell.parentType])]
                kept == SelectSeq([listPos \in 1..Len(newCells) |-> listPos],
                                  LAMBDA listPos : newCells[listPos].include)
            IN  [dataCell EXCEPT !.struct =
                    List([n \in 1..Len(kept) |->
                             IF dataCell.struct.e[kept[n]].t = "dict"
                             THEN newCells[kept[n]].struct
                             ELSE dataCell.struct.e[kept[n]]])]
      [] OTHER -> dataCell

\* removeEmbeddedIgnores on the DataCell of a comparable struct: the struct of
\* the cell after the call; what is not a dict (the projection raised) is
\* handed on
removeEmbeddedIgnores(struct) ==
    IF "t" \in DOMAIN struct THEN struct
    ELSE removeFromCell(DataCell(Dict(struct))).struct.d

\* a comparison in which no custom transformer runs
runCustomTransformations_none(dataType, struct) == struct

runCustomTransformations(dataType, struct) ==
    LET updtTransConfigurations == getCustomUpdateTransformations(dataType)
    IN  IF updtTransConfigurations # <<>>
        THEN callCustomMethods(updtTransConfigurations, 1, <<struct>>)[1]
        ELSE struct

isIgnore(dataType, inputJson) ==
    /\ getUniqueField(dataType) \in DOMAIN inputJson
    /\ inputJson[getUniqueField(dataType)] \in getIgnoreList(dataType)

\* an empty-equivalence of null and the empty string alone
IsEmptyEquivalent_scalars(v) == v = [t |-> "null", s |-> ""] \/ v = [t |-> "str", s |-> ""]

(* Diff.Diff: the structural diff that ignores empty types *)
\* null, "", [] and {} are not a difference from one another
IsEmptyEquivalent(v) ==
    v = None \/ v = Str("") \/ v = List(<<>>) \/ v = Dict(EmptyTable)

\* a comparison of values that takes a list for the sequence it is
valuesDiffer_ordered(a, b) ==
    IF IsEmptyEquivalent(a) /\ IsEmptyEquivalent(b) THEN FALSE ELSE a # b

\* whether two values differ: scalars by type and value, objects over the
\* union of their keys, lists as multisets
RECURSIVE valuesDiffer(_, _)
valuesDiffer(a, b) ==
    IF IsEmptyEquivalent(a) /\ IsEmptyEquivalent(b) THEN FALSE
    ELSE IF a.t # b.t THEN TRUE
    ELSE CASE a.t = "dict" ->
                \E f \in DOMAIN a.d \cup DOMAIN b.d :
                    IF f \in DOMAIN a.d /\ f \in DOMAIN b.d
                    THEN valuesDiffer(a.d[f], b.d[f])
                    ELSE IF f \in DOMAIN a.d THEN ~IsEmptyEquivalent(a.d[f])
                         ELSE ~IsEmptyEquivalent(b.d[f])
           [] a.t = "list" ->
                \/ Len(a.e) # Len(b.e)
                \/ ~\E pairing \in Permutations(1..Len(a.e)) :
                        \A i \in 1..Len(a.e) : ~valuesDiffer(a.e[i], b.e[pairing[i]])
           [] OTHER -> a # b

\* the keys under which two comparable structs differ
Diff(a, b) ==
    {f \in DOMAIN a \cup DOMAIN b :
        IF f \in DOMAIN a /\ f \in DOMAIN b
        THEN valuesDiffer(a[f], b[f])
        ELSE IF f \in DOMAIN a THEN ~IsEmptyEquivalent(a[f]) ELSE ~IsEmptyEquivalent(b[f])}

\* what getDiff compares for one of the two records
comparableForDiff(dataType, json) ==
    runCustomTransformations(dataType,
        removeEmbeddedIgnores(getComparableStruct(json, getUserPopulatedProperties(dataType))))

\* the steps of getDiff from the two comparable structs on
diffOfComparables(dataType, thisComparable, inputComparable) ==
    Diff(runCustomTransformations(dataType, removeEmbeddedIgnores(thisComparable)),
         runCustomTransformations(dataType, removeEmbeddedIgnores(inputComparable)))

\* CKANRecord.getDiff of a record of type dataType; {} stands for an empty diff
\* and for None
getDiff(dataType, selfJson, inputJson) ==
    IF ~isIgnore(dataType, inputJson)
    THEN Diff(comparableForDiff(dataType, selfJson), comparableForDiff(dataType, inputJson))
    ELSE {}

\* self.getDiff(inputRecord) for a record self of type dataType and an
\* input record of type inputType: the input record is projected on the
\* schema of its own type, the ignore list and the transformers are those
\* of self; no step compares the two types
getDiffOfTypes(dataType, selfJson, inputType, inputJson) ==
    IF ~isIgnore(dataType, inputJson)
    THEN Diff(comparableForDiff(dataType, selfJson),
              runCustomTransformations(dataType,
                  removeEmbeddedIgnores(
                      getComparableStruct(inputJson, getUserPopulatedProperties(inputType)))))
    ELSE {}

\* CKANRecord.__eq__ and __ne__
recordEq(dataType, selfJson, inputJson) == getDiff(dataType, selfJson, inputJson) = {}

recordNe(dataType, selfJson, inputJson) == ~recordEq(dataType, selfJson, inputJson)

---------------------------------------------------------------------------
(* CKANDataSet *)

\* set(getUniqueIdentifiers())
getUniqueIdentifiers(jsonData) == {jsonData[i]["name"] : i \in 1..Len(jsonData)}

\* the jsonData of the record getRecordByUniqueId returns; unique keys are
\* distinct within a dataset
getRecordByUniqueId(jsonData, uniqueValueToRetrieve) ==
    jsonData[CHOOSE i \in 1..Len(jsonData) : jsonData[i]["name"] = uniqueValueToRetrieve]

\* deleteOrder is the order in which python iterates over
\* destUniqueIdSet.difference(srcUniqueIdSet)
getDeleteList(dataType, deleteOrder) ==
    SelectSeq(deleteOrder, LAMBDA deleteUniqueName : deleteUniqueName \notin getIgnoreList(dataType))

\* addOrder is the order in which python iterates over
\* srcUniqueIdSet.difference(destUniqueIdSet)
addListIds(dataType, addOrder) ==
    SelectSeq(addOrder, LAMBDA addRecordUniqueName : addRecordUniqueName \notin getIgnoreList(dataType))

getAddList(dataType, srcJson, addOrder) ==
    LET ids == addListIds(dataType, addOrder)
    IN  [i \in 1..Len(ids) |->
            getComparableStruct(getRecordByUniqueId(srcJson, ids[i]),
                                getUserPopulatedProperties(recordConstructor(dataType)))]

\* the unique ids getUpdatesList compares: "chkForUpdateIds not in ignoreList"
\* tests the whole list against the ignore list and is always true
chkForUpdateIds(destUniqueIdSet, srcUniqueIdSet) ==
    SortedKeys(srcUniqueIdSet \cap destUniqueIdSet)

\* the unique ids whose source record is appended to updateDataList
updateIds(dataType, srcJson, destJson) ==
    SelectSeq(chkForUpdateIds(getUniqueIdentifiers(destJson), getUniqueIdentifiers(srcJson)),
              LAMBDA chkForUpdateId :
                  recordNe(recordConstructor(dataType),
                           getRecordByUniqueId(srcJson, chkForUpdateId),
                           getRecordByUniqueId(destJson, chkForUpdateId)))

\* the unique ids of the records getDelta runs getComparableStruct on:
\* on the source side the adds and the compared records, on the destination
\* side the compared records; a comparison stops at isIgnore
projectedIds(dataType, srcJson, destJson, side) ==
    LET srcIds == getUniqueIdentifiers(srcJson)
        destIds == getUniqueIdentifiers(destJson)
        compared == {k \in srcIds \cap destIds :
                        ~isIgnore(recordConstructor(dataType), getRecordByUniqueId(destJson, k))}
    IN  IF side = "src"
        THEN compared \cup {k \in srcIds \ destIds : k \notin getIgnoreList(dataType)}
        ELSE compared

\* jsonData of a dataset after getComparableStruct ran on the records ids
jsonAfterComparable(dataType, jsonData, ids) ==
    [i \in 1..Len(jsonData) |->
        IF jsonData[i]["name"] \in ids
        THEN structAfterComparable(jsonData[i], getUserPopulatedProperties(recordConstructor(dataType)))
        ELSE jsonData[i]]

\* updateDataList: the jsonData of the source records that differ
getUpdatesList(dataType, srcJson, destJson) ==
    LET ids == updateIds(dataType, srcJson, destJson)
        after == jsonAfterComparable(dataType, srcJson, SeqToSet(ids))
    IN  [i \in 1..Len(ids) |-> getRecordByUniqueId(after, ids[i])]

\* CKANDataSetDeltas.setUpdateDatasets: updates[updateObj["name"]] = updateObj
setUpdateDatasets(updateList) ==
    [name \in {updateList[i]["name"] : i \in 1..Len(updateList)} |->
        updateList[CHOOSE i \in 1..Len(updateList) : updateList[i]["name"] = name]]

---------------------------------------------------------------------------
(* CKAN api wrapper, as the CacheLoader calls it *)

\* CacheLoader.loadMethodMap[dataType](dataOrigin)
loadMethod(dataType, dataOrigin) == remote[dataType][dataOrigin]

\* the kind whose "show" end point loadSingleRecordMethodMap[dataType] calls:
\* loadSingleGroup calls getPackage
singleRecordType(dataType) == IF dataType = "groups" THEN "packages" ELSE dataType

\* the records the "show" end point finds for an identifier (an id or a name)
showMatches(dataType, dataOrigin, identifier) ==
    LET records == remote[singleRecordType(dataType)][dataOrigin]
    IN  {i \in 1..Len(records) : records[i]["id"] = identifier \/ records[i]["name"] = identifier}

---------------------------------------------------------------------------
(* DataCache.  Every kind has the one field mapping (id, name), so the     *)
(* first level of cacheStruct and reverseStruct, the auto field name, is   *)
(* left out; init says whether cacheStruct["id"] exists.                   *)

emptyStruct == [dataType \in VALID_TRANSFORM_TYPES |-> [dataOrigin \in {"src", "dest"} |-> EmptyTable]]

\* apiCalls is the bag of the calls the cache loader has made to the api
\* wrappers of the two instances
newDataCache == [init |-> FALSE, cacheStruct |-> emptyStruct, reverseStruct |-> emptyStruct,
                 apiCalls |-> EmptyBag]

\* rawData = loadMethodMap[dataType](origin)
listCall(c, dataType, dataOrigin) ==
    [c EXCEPT !.apiCalls = @ (+) SetToBag({[op |-> "list", dataType |-> dataType,
                                             dataOrigin |-> dataOrigin, query |-> None]})]

\* singleRecord = loadSingleRecordMethodMap[dataType](dataOrigin, query)
showCall(c, dataType, dataOrigin, dataValue) ==
    [c EXCEPT !.apiCalls = @ (+) SetToBag({[op |-> "show", dataType |-> dataType,
                                             dataOrigin |-> dataOrigin, query |-> dataValue]})]

initCacheStruct(c) == [c EXCEPT !.init = TRUE]

\* the assignments addData makes for one record
addDataRecord(c, dataType, dataOrigin, autoGenFieldValue, userGenFieldValue) ==
    IF dataOrigin = "src"
    THEN [c EXCEPT !.cacheStruct[dataType][dataOrigin] = (autoGenFieldValue :> userGenFieldValue) @@ @,
                   !.reverseStruct[dataType][dataOrigin] = (userGenFieldValue :> autoGenFieldValue) @@ @]
    ELSE [c EXCEPT !.cacheStruct[dataType][dataOrigin] = (userGenFieldValue :> autoGenFieldValue) @@ @,
                   !.reverseStruct[dataType][dataOrigin] = (autoGenFieldValue :> userGenFieldValue) @@ @]

RECURSIVE addDataFrom(_, _, _, _, _)
addDataFrom(c, jsonData, i, dataType, dataOrigin) ==
    IF i > Len(jsonData) THEN c
    ELSE addDataFrom(addDataRecord(c, dataType, dataOrigin, jsonData[i]["id"], jsonData[i]["name"]),
                     jsonData, i + 1, dataType, dataOrigin)

addData(c, jsonData, dataType, dataOrigin) ==
    addDataFrom(initCacheStruct(c), jsonData, 1, dataType, dataOrigin)

\* the assignment addRawData and addRawDataSingleRecord make for one record
addRawRecord(c, dataType, dataOrigin, autoGenFieldValue, userGenFieldValue) ==
    IF dataOrigin = "src"
    THEN [c EXCEPT !.cacheStruct[dataType][dataOrigin] = (autoGenFieldValue :> userGenFieldValue) @@ @]
    ELSE [c EXCEPT !.cacheStruct[dataType][dataOrigin] = (userGenFieldValue :> autoGenFieldValue) @@ @]

RECURSIVE addRawDataFrom(_, _, _, _, _)
addRawDataFrom(c, rawData, i, dataType, dataOrigin) ==
    IF i > Len(rawData) THEN c
    ELSE addRawDataFrom(addRawRecord(initCacheStruct(c), dataType, dataOrigin,
                                     rawData[i]["id"], rawData[i]["name"]),
                        rawData, i + 1, dataType, dataOrigin)

addRawData(c, rawData, dataType, dataOrigin) == addRawDataFrom(c, rawData, 1, dataType, dataOrigin)

\* cacheStruct[autoGenFieldName] must exist
addRawDataSingleRecord(c, singleRecord, dataType, dataOrigin) ==
    addRawRecord(c, dataType, dataOrigin, singleRecord["id"], singleRecord["name"])

isDatatypeLoaded(c, objType) ==
    /\ c.init
    /\ c.cacheStruct[objType]["src"] # EmptyTable
    /\ c.cacheStruct[objType]["dest"] # EmptyTable

RECURSIVE loadTypeFrom(_, _, _)
loadTypeFrom(c, dataType, i) ==
    IF i > Len(DATA_SOURCE) THEN c
    ELSE loadTypeFrom(IF c.cacheStruct[dataType][DATA_SOURCE[i]] = EmptyTable
                      THEN addRawData(listCall(c, dataType, DATA_SOURCE[i]),
                                      loadMethod(dataType, DATA_SOURCE[i]), dataType, DATA_SOURCE[i])
                      ELSE c,
                      dataType, i + 1)

\* CacheLoader.loadType; cacheStruct[fieldName] must exist
loadType(c, dataType) == loadTypeFrom(c, dataType, 1)

loadData(c, objType) == IF ~isDatatypeLoaded(c, objType) THEN loadType(c, objType) ELSE c

\* CacheLoader.loadSingleValue through DataCache.loadSingleDataSet; ok is
\* false when the api finds no record for the identifier
loadSingleDataSet(c, objType, dataOrigin, userDefinedValue) ==
    LET found == showMatches(objType, dataOrigin, userDefinedValue)
        asked == showCall(c, objType, dataOrigin, userDefinedValue)
    IN  IF found = {}
        THEN [c |-> asked, ok |-> FALSE]
        ELSE [c |-> addRawDataSingleRecord(asked,
                        remote[singleRecordType(objType)][dataOrigin][CHOOSE i \in found : TRUE],
                        objType, dataOrigin),
              ok |-> TRUE]

\* a membership check against the forward destination table, keyed by user values
isAutoValueInDest_forward(c, objType, autoValue) == autoValue \in DOMAIN c.cacheStruct[objType]["dest"]

isAutoValueInDest(c, objType, autoValue) == autoValue \in DOMAIN c.reverseStruct[objType]["dest"]

\* a lookup that answers from the cache alone and never asks the destination
destAutoValueOf_cacheOnly(c, objType, srcUserValue) ==
    IF srcUserValue \in DOMAIN c.cacheStruct[objType]["dest"]
    THEN [c |-> c, ok |-> TRUE, val |-> c.cacheStruct[objType]["dest"][srcUserValue]]
    ELSE [c |-> c, ok |-> FALSE, val |-> None]

\* the second half of src2DestRemap, from the lookup of srcUserValue on
destAutoValueOf(c, objType, srcUserValue) ==
    LET loaded == IF srcUserValue \notin DOMAIN c.cacheStruct[objType]["dest"]
                  THEN loadSingleDataSet(c, objType, "dest", srcUserValue)
                  ELSE [c |-> c, ok |-> TRUE]
    IN  IF loaded.ok /\ srcUserValue \in DOMAIN loaded.c.cacheStruct[objType]["dest"]
        THEN [c |-> loaded.c, ok |-> TRUE, val |-> loaded.c.cacheStruct[objType]["dest"][srcUserValue]]
        ELSE [c |-> loaded.c, ok |-> FALSE, val |-> None]

\* a remap that answers None where it cannot find the value
src2DestRemap_sentinel(c, objType, autoValue) == [c |-> c, ok |-> TRUE, val |-> None]

\* src2DestRemap(autoFieldName, objType, autoValue) with the default
\* autoValOrigin = DEST; ok is false when it raises
src2DestRemap(c, objType, autoValue) ==
    IF ~c.init THEN [c |-> c, ok |-> FALSE, val |-> None]
    ELSE LET c1 == loadData(c, objType)
         IN  IF autoValue \in DOMAIN c1.cacheStruct[objType]["dest"]
             THEN destAutoValueOf(c1, objType, c1.cacheStruct[objType]["dest"][autoValue])
             ELSE IF autoValue \in DOMAIN c1.reverseStruct[objType]["src"]
                  THEN destAutoValueOf(c1, objType, c1.reverseStruct[objType]["src"][autoValue])
                  ELSE [c |-> c1, ok |-> FALSE, val |-> None]

\* getUserDefinedValue(autoFieldName, autoValue, userDefinedFieldName, objType,
\* origin); ok is false when it raises: return userValue without an assignment
getUserDefinedValue(c, autoValue, objType, origin) ==
    IF ~c.init THEN [c |-> c, ok |-> FALSE, val |-> None]
    ELSE LET struct == IF origin = "src" THEN c.cacheStruct ELSE c.reverseStruct
             c1 == loadData(c, objType)
             table == IF origin = "src" THEN c1.cacheStruct[objType][origin]
                      ELSE c1.reverseStruct[objType][origin]
         IN  IF autoValue \in DOMAIN table
             THEN [c |-> c1, ok |-> TRUE, val |-> table[autoValue]]
             ELSE [c |-> c1, ok |-> FALSE, val |-> None]

---------------------------------------------------------------------------
(* CKANDataSetDeltas: materialisation.  A collection of payloads is a      *)
(* sequence; for the updates dict it is the sequence of its values in      *)
(* insertion order, which is the sorted order getUpdatesList appends in.   *)

\* a materialisation that keeps the value of the unique field only
filterNonUserGeneratedFields_nameOnly(dataType, srcJson, uniqueIds) ==
    [i \in 1..Len(uniqueIds) |->
        [key \in DOMAIN getUserPopulatedProperties(recordConstructor(dataType)).m |->
            IF key = "name" THEN uniqueIds[i] ELSE None]]

\* the comparable struct of the source record of every unique id
filterNonUserGeneratedFields(dataType, srcJson, uniqueIds) ==
    [i \in 1..Len(uniqueIds) |->
        getComparableStruct(getRecordByUniqueId(srcJson, uniqueIds[i]),
                            getUserPopulatedProperties(recordConstructor(dataType)))]

RECURSIVE copyFields(_, _, _, _)
copyFields(payload, autoGenFieldList, i, recordJson) ==
    IF i > Len(autoGenFieldList) THEN payload
    ELSE copyFields((autoGenFieldList[i] :> recordJson[autoGenFieldList[i]]) @@ payload,
                    autoGenFieldList, i + 1, recordJson)

\* a materialisation that copies no auto-generated field
addAutoGenFields_none(inputDataStruct, uniqueIds, autoGenFieldList, fieldSourceJson) ==
    inputDataStruct

\* fieldSourceJson is the jsonData of recordCalls[additionalFieldSource]
addAutoGenFields(inputDataStruct, uniqueIds, autoGenFieldList, fieldSourceJson) ==
    [iterVal \in 1..Len(inputDataStruct) |->
        copyFields(inputDataStruct[iterVal], autoGenFieldList, 1,
                   getRecordByUniqueId(fieldSourceJson, uniqueIds[iterVal]))]

\* what a call leaves when it raised ValueError or AttributeError
ValueError == [t |-> "raised", s |-> "ValueError"]
AttributeError == [t |-> "raised", s |-> "AttributeError"]

\* a payload (a dict of fields) is told from what a raising call left
isRaised(x) == DOMAIN x = {"t", "s"} /\ x.t = "raised"

\* the first error among the values of a sequence or a table, if any
firstRaised(values, otherwise) ==
    IF \E i \in DOMAIN values : values[i].t = "raised"
    THEN values[CHOOSE i \in DOMAIN values : values[i].t = "raised"]
    ELSE otherwise

\* __populateField(inputData, key, valueStruct) on values of any type; the
\* key 0 that the code passes for a list is written "0"
RECURSIVE populate(_, _, _)
RECURSIVE populateEach(_, _, _, _)
RECURSIVE populateElems(_, _)

\* the list branch: inputData[key] as the loop over valueStruct finds it
currentOf(inputData, key) ==
    IF inputData.t = "dict" /\ key \in DOMAIN inputData.d THEN inputData.d[key] ELSE List(<<>>)

\* the list branch, "if isinstance(nextKey, dict) and not inputData[key]",
\* which only the loop on a dict has: an empty current value is given a dict
\* to fill, which a value without append cannot take
started(current, nextKey, onDict) ==
    IF onDict /\ nextKey.t = "dict" /\ ~Truthy(current)
    THEN IF current.t = "list" THEN List(Append(current.e, Dict(EmptyTable)))
         ELSE AttributeError
    ELSE current

\* the list branch: inputData with the filled value under key, or appended
putFilled(inputData, key, valueStruct, filled) ==
    CASE inputData.t = "dict" ->
            IF filled.t = "raised" THEN filled
            ELSE Dict((key :> filled) @@ inputData.d)
      [] inputData.t = "list"
           /\ ~\E p \in 1..Len(inputData.e) : inputData.e[p] = valueStruct ->
            IF filled.t = "raised" THEN filled
            ELSE List(Append(inputData.e, filled))
      [] OTHER -> inputData

\* the dict branch: the elements of a list, or the values of a dict
valuesOf(inputData) ==
    CASE inputData.t = "list" -> inputData.e
      [] inputData.t = "dict" -> inputData.d
      [] OTHER -> <<>>

\* the dict branch: inputData with its elements or values populated
withValues(inputData, vals) ==
    CASE inputData.t = "list" -> firstRaised(vals, List(vals))
      [] inputData.t = "dict" -> firstRaised(vals, Dict(vals))
      [] OTHER -> inputData

firstKey(pairs) == CHOOSE k \in DOMAIN pairs : TRUE

\* the list branch: "for nextKey in valueStruct" from position i on, current
\* being inputData[key] of a dict (onDict) or the list appended to a list
populateEach(current, nextKeys, i, onDict) ==
    IF i > Len(nextKeys) \/ current.t = "raised" THEN current
    ELSE populateEach(populate(started(current, nextKeys[i], onDict), "0", nextKeys[i]),
                      nextKeys, i + 1, onDict)

\* the dict branch: "for elemKey in valueStruct" over the keys left, every
\* element or value of inputData being populated with the pair
populateElems(inputData, pairs) ==
    IF DOMAIN pairs = {} \/ inputData.t = "raised" THEN inputData
    ELSE populateElems(
             withValues(inputData,
                        [p \in DOMAIN valuesOf(inputData) |->
                            populate(valuesOf(inputData)[p], firstKey(pairs), pairs[firstKey(pairs)])]),
             [k \in DOMAIN pairs \ {firstKey(pairs)} |-> pairs[k]])

\* __populateField(inputData, key, valueStruct); an error is handed on
populate(inputData, key, valueStruct) ==
    CASE inputData.t = "raised" -> inputData
      [] valueStruct.t \in {"str", "bool", "int"} ->
            CASE inputData.t = "dict" ->
                    IF key \in DOMAIN inputData.d THEN inputData
                    ELSE Dict((key :> valueStruct) @@ inputData.d)
              [] inputData.t = "list" ->
                    IF \E p \in 1..Len(inputData.e) : inputData.e[p] = valueStruct
                    THEN inputData ELSE List(Append(inputData.e, valueStruct))
              [] OTHER -> ValueError
      [] valueStruct.t = "list" ->
            putFilled(inputData, key, valueStruct,
                      populateEach(currentOf(inputData, key), valueStruct.e, 1,
                                   inputData.t = "dict"))
      [] valueStruct.t = "dict" -> populateElems(inputData, valueStruct.d)
      [] OTHER -> inputData

\* the body of the loop of addRequiredDefaultValues for one field of one
\* payload: __populateField, then the field is set if it is still absent
populateField(inputData, key, valueStruct) ==
    LET populated == populate(Dict(inputData), key, valueStruct)
    IN  IF populated.t = "raised" THEN populated
        ELSE IF key \notin DOMAIN populated.d THEN (key :> valueStruct) @@ populated.d
        ELSE populated.d

RECURSIVE populateFields(_, _, _)
populateFields(currentDataset, fieldNames, defaultFields) ==
    IF fieldNames = {} \/ isRaised(currentDataset) THEN currentDataset
    ELSE LET fieldName == CHOOSE f \in fieldNames : TRUE
         IN  populateFields(populateField(currentDataset, fieldName, defaultFields[fieldName]),
                            fieldNames \ {fieldName}, defaultFields)

\* the payloads after the pass; the error stands for a payload on which
\* __populateField raised
addRequiredDefaultValues(inputDataStruct, defaultFields) ==
    [iterVal \in 1..Len(inputDataStruct) |->
        populateFields(inputDataStruct[iterVal], DOMAIN defaultFields, defaultFields)]

\* whether the pass that left these payloads raised
hasRaised(inputDataStruct) ==
    \E iterVal \in 1..Len(inputDataStruct) : isRaised(inputDataStruct[iterVal])

enforceTypes(inputDataStruct, enforcedTypes) ==
    [iterVal \in 1..Len(inputDataStruct) |->
        [fieldName \in DOMAIN inputDataStruct[iterVal] |->
            IF /\ fieldName \in DOMAIN enforcedTypes
               /\ TypeOf(enforcedTypes[fieldName]) # TypeOf(inputDataStruct[iterVal][fieldName])
               /\ ~Truthy(inputDataStruct[iterVal][fieldName])
            THEN enforcedTypes[fieldName]
            ELSE inputDataStruct[iterVal][fieldName]]]

\* remapIdFields from payload iterVal, id rule j on; r carries the cache, the
\* payloads rewritten so far and whether src2DestRemap has raised
RECURSIVE remapFrom(_, _, _, _)
remapFrom(r, idFields, iterVal, j) ==
    IF ~r.ok \/ iterVal > Len(r.data) THEN r
    ELSE IF j > Len(idFields) THEN remapFrom(r, idFields, iterVal + 1, 1)
    ELSE LET parentFieldName == idFields[j].property
             childObjType == idFields[j].obj_type
             parentFieldValue == r.data[iterVal][parentFieldName]
         IN  IF ~isAutoValueInDest(r.c, childObjType, parentFieldValue)
             THEN LET m == src2DestRemap(r.c, childObjType, parentFieldValue)
                  IN  remapFrom([c |-> m.c, ok |-> m.ok,
                                 data |-> IF m.ok
                                          THEN [r.data EXCEPT ![iterVal][parentFieldName] = m.val]
                                          ELSE r.data],
                                idFields, iterVal, j + 1)
             ELSE remapFrom(r, idFields, iterVal, j + 1)

remapIdFields(c, inputDataStruct, idFields) ==
    remapFrom([c |-> c, ok |-> TRUE, data |-> inputDataStruct], idFields, 1, 1)

\* the passes of getAddData and getUpdateData on the payloads a pass before
\* them left: a pass is entered when the configuration of the kind names
\* something for it
autoGenPass(data, uniqueIds, autoFields, json) ==
    IF autoFields # <<>> THEN addAutoGenFields(data, uniqueIds, autoFields, json) ELSE data

defaultsPass(dataType, data) ==
    IF DOMAIN getRequiredFieldDefaultValues(dataType) # {}
    THEN addRequiredDefaultValues(data, getRequiredFieldDefaultValues(dataType))
    ELSE data

remapPass(c, dataType, data) ==
    IF getIdFieldConfigs(dataType) # <<>>
    THEN remapIdFields(c, data, getIdFieldConfigs(dataType))
    ELSE [c |-> c, ok |-> TRUE, data |-> data]

enforcePass(dataType, data) ==
    IF DOMAIN getTypeEnforcement(dataType) # {}
    THEN enforceTypes(data, getTypeEnforcement(dataType))
    ELSE data

\* what getAddData returns once the ids are remapped: the types are enforced
\* last
addDataReturned(dataType, remapped) ==
    [c |-> remapped.c, ok |-> remapped.ok,
     data |-> IF remapped.ok THEN enforcePass(dataType, remapped.data) ELSE <<>>,
     passes |-> <<"filter">>
                \o (IF getFieldsToIncludeOnAdd(dataType) # <<>> THEN <<"auto">> ELSE <<>>)
                \o (IF DOMAIN getRequiredFieldDefaultValues(dataType) # {}
                    THEN <<"defaults">> ELSE <<>>)
                \o (IF getIdFieldConfigs(dataType) # <<>> THEN <<"remap">> ELSE <<>>)
                \o (IF remapped.ok /\ DOMAIN getTypeEnforcement(dataType) # {}
                    THEN <<"enforce">> ELSE <<>>)]

\* the unique ids of the add payloads, in their order
addUniqueIds(dataType, adds) == [i \in 1..Len(adds) |-> adds[i][getUniqueField(dataType)]]

\* getAddData on the delta of source dataset srcJson: the cache afterwards,
\* whether it returned, the list it returned and the passes it entered, in
\* the order it entered them
getAddData(c, dataType, srcJson, adds) ==
    addDataReturned(dataType,
        remapPass(c, dataType,
            defaultsPass(dataType,
                autoGenPass(filterNonUserGeneratedFields(dataType, srcJson,
                                                         addUniqueIds(dataType, adds)),
                            addUniqueIds(dataType, adds),
                            getFieldsToIncludeOnAdd(dataType), srcJson))))

\* transformers applied one by one, each name being looked up when its turn
\* comes
customTransform_lazy(dataType, customTransformers, updates) ==
    LET bad == {i \in 1..Len(customTransformers) :
                   customTransformers[i] \notin packagesMethodNames}
        upTo == IF bad = {} THEN Len(customTransformers)
                ELSE (CHOOSE i \in bad : \A j \in bad : i <= j) - 1
    IN  IF dataType \notin VALID_TRANSFORM_TYPES \/ dataType \notin getClasses
        THEN [raised |-> TRUE, applied |-> 0, data |-> updates]
        ELSE [raised |-> bad # {}, applied |-> upTo,
              data |-> callCustomMethods(SubSeq(customTransformers, 1, upTo), 1, updates)]

\* the last step of getUpdateData: the MethodMapping is constructed, which
\* validates every configured name, and then every transformer is called
\* on the payloads; applied is the number of transformers called
customTransform(dataType, customTransformers, updates) ==
    IF customTransformers = <<>>
    THEN [raised |-> FALSE, applied |-> 0, data |-> updates]
    ELSE IF ~validate(dataType, customTransformers)
    THEN [raised |-> TRUE, applied |-> 0, data |-> updates]
    ELSE [raised |-> FALSE, applied |-> Len(customTransformers),
          data |-> callCustomMethods(customTransformers, 1, updates)]

\* what getUpdateData returns once the ids are remapped and the custom
\* transformers have run on the payloads, or have raised
updateDataTransformed(dataType, updates, uniqueIds, remapped, done) ==
    [c |-> remapped.c, ok |-> remapped.ok /\ ~done.raised,
     data |-> IF remapped.ok /\ ~done.raised
              THEN [k \in DOMAIN updates |->
                       done.data[CHOOSE i \in 1..Len(uniqueIds) : uniqueIds[i] = k]]
              ELSE EmptyTable,
     passes |-> <<"filter">>
                \o (IF getFieldsToIncludeOnUpdate(dataType) # <<>> THEN <<"auto">> ELSE <<>>)
                \o (IF DOMAIN getRequiredFieldDefaultValues(dataType) # {}
                    THEN <<"defaults">> ELSE <<>>)
                \o (IF DOMAIN getTypeEnforcement(dataType) # {} THEN <<"enforce">> ELSE <<>>)
                \o (IF getIdFieldConfigs(dataType) # <<>> THEN <<"remap">> ELSE <<>>)
                \o (IF remapped.ok /\ getCustomUpdateTransformations(dataType) # <<>>
                    THEN <<"transform">> ELSE <<>>)]

updateDataReturned(dataType, updates, uniqueIds, remapped) ==
    updateDataTransformed(dataType, updates, uniqueIds, remapped,
        customTransform(dataType, getCustomUpdateTransformations(dataType), remapped.data))

\* getUpdateData: the cache afterwards, whether it returned, the dict it
\* returned and the passes it entered, in the order it entered them
getUpdateData(c, dataType, srcJson, destJson, updates) ==
    updateDataReturned(dataType, updates, SortedKeys(DOMAIN updates),
        remapPass(c, dataType,
            enforcePass(dataType,
                defaultsPass(dataType,
                    autoGenPass(filterNonUserGeneratedFields(dataType, srcJson,
                                                             SortedKeys(DOMAIN updates)),
                                SortedKeys(DOMAIN updates),
                                getFieldsToIncludeOnUpdate(dataType), destJson)))))

---------------------------------------------------------------------------
(* The destination instance applying a materialised delta: deleted keys    *)
(* are removed, update payloads replace the records with those keys, add   *)
(* payloads are created; the instance keeps or assigns the id of a record  *)
(* whose payload carries none, and lists its records by name.              *)

destIdOf(name) == Str(DestIdNames[KeyIndex(name)])

withId(payload, id) == IF "id" \in DOMAIN payload THEN payload ELSE ("id" :> id) @@ payload

applyDelta(destJson, deletes, addPayloads, updatePayloads) ==
    LET kept == SelectSeq(destJson, LAMBDA r : r["name"] \notin SeqToSet(deletes))
        updated == [i \in 1..Len(kept) |->
                       IF kept[i]["name"] \in DOMAIN updatePayloads
                       THEN withId(updatePayloads[kept[i]["name"]], kept[i]["id"])
                       ELSE kept[i]]
        created == [i \in 1..Len(addPayloads) |-> withId(addPayloads[i], destIdOf(addPayloads[i]["name"]))]
        all == updated \o created
        names == SortedKeys({all[i]["name"] : i \in 1..Len(all)})
    IN  [n \in 1..Len(names) |-> all[CHOOSE i \in 1..Len(all) : all[i]["name"] = names[n]]]

---------------------------------------------------------------------------
(* The records the two instances hold.  A record of either instance has    *)
(* an id the instance generated and a name; variant 2 of a source record   *)
(* lacks a field of the schema, variant 2 of a destination record differs  *)
(* from every source record.  Variant 1 of a package differs between the   *)
(* instances in the spelling of security_class only.                       *)

srcRecord(dataType, i, variant, orgId) ==
    LET base == [f \in {"id", "name"} |-> IF f = "id" THEN Str(SrcIdNames[i]) ELSE Str(KeyNames[i])]
    IN  CASE dataType = "users" ->
                IF variant = 1 THEN ("fullname" :> Str("A")) @@ base ELSE base
          [] dataType = "packages" ->
                IF variant = 1
                THEN ("owner_org" :> orgId) @@ ("security_class" :> Str("HIGH-CONFIDENTIAL"))
                     @@ ("resource_status" :> Str("historicalArchive")) @@ base
                ELSE ("owner_org" :> orgId) @@ ("security_class" :> Str("LOW-PUBLIC"))
                     @@ ("resource_status" :> Str("onGoing")) @@ base
          [] dataType = "organizations" ->
                IF variant = 1
                THEN ("title" :> Str("A")) @@ ("url" :> Str("U")) @@ base
                ELSE ("url" :> Str("U")) @@ base
          [] OTHER ->
                IF variant = 1 THEN ("title" :> Str("A")) @@ base ELSE base

destRecord(dataType, i, variant, orgId) ==
    LET base == [f \in {"id", "name"} |-> IF f = "id" THEN Str(DestIdNames[i]) ELSE Str(KeyNames[i])]
    IN  CASE dataType = "users" ->
                ("fullname" :> IF variant = 1 THEN Str("A") ELSE Str("B")) @@ base
          [] dataType = "packages" ->
                IF variant = 1
                THEN ("owner_org" :> orgId) @@ ("security_class" :> Str("HIGH-CLASSIFIED"))
                     @@ ("resource_status" :> Str("historicalArchive")) @@ base
                ELSE ("owner_org" :> orgId) @@ ("security_class" :> Str("LOW-PUBLIC")) @@ base
          [] dataType = "organizations" ->
                IF variant = 1
                THEN ("title" :> Str("A")) @@ ("url" :> Str("U")) @@ base
                ELSE ("title" :> Str("B")) @@ ("url" :> Str("V")) @@ base
          [] OTHER ->
                ("title" :> IF variant = 1 THEN Str("A") ELSE Str("B")) @@ base

\* the list an instance returns: choice[i] is 0 when it has no record named
\* KeyNames[i], else the variant of that record
recordList(dataOrigin, dataType, choice, orgId) ==
    LET present == SelectSeq([i \in KeyIndexes |-> i], LAMBDA i : choice[i] # 0)
    IN  [n \in 1..Len(present) |->
            IF dataOrigin = "src"
            THEN srcRecord(dataType, present[n], choice[present[n]], orgId)
            ELSE destRecord(dataType, present[n], choice[present[n]], orgId)]

\* the one organization: the destination lists it, the source lists it or
\* lists no organization (its packages then refer to an id it does not list)
srcOrg == [f \in {"id", "name"} |-> IF f = "id" THEN Str("s1") ELSE Str("k1")]

destOrg(orgId) == [f \in {"id", "name"} |-> IF f = "id" THEN orgId ELSE Str("k1")]

\* no single call is being made, or none has returned yet
noCall == [op |-> "none"]

noResult == [called |-> FALSE, ok |-> FALSE, data |-> <<>>, passes |-> <<>>]

emptyDelta == [adds |-> <<>>, deletes |-> <<>>, updates |-> EmptyTable]

---------------------------------------------------------------------------
(* One run of the synchronisation of the datasets of one kind *)

Init ==
    /\ kind \in {"users", "groups", "organizations", "packages"}
    /\ \E ownList, recordList_ \in {{}, {Str("k1")}} :
          /\ kind = recordConstructor(kind) => ownList = recordList_
          /\ ignoreList = [t \in VALID_TRANSFORM_TYPES |->
                              IF t = kind THEN ownList
                              ELSE IF t = recordConstructor(kind) THEN recordList_
                              ELSE {}]
    /\ \E srcChoice, destChoice \in [KeyIndexes -> 0..2] :
       \E destOrgId \in {Str("d1"), Str("s1")} : \E srcHasOrg \in BOOLEAN :
          /\ kind # "packages" => (destOrgId = Str("d1") /\ srcHasOrg)
          /\ srcData = recordList("src", kind, srcChoice, Str("s1"))
          /\ destData = recordList("dest", kind, destChoice, destOrgId)
          /\ remote = [t \in VALID_TRANSFORM_TYPES |->
                          [o \in {"src", "dest"} |->
                              IF t = kind
                              THEN recordList(o, kind, IF o = "src" THEN srcChoice ELSE destChoice,
                                              IF o = "src" THEN Str("s1") ELSE destOrgId)
                              ELSE IF kind = "packages" /\ t = "organizations"
                              THEN IF o = "dest" THEN <<destOrg(destOrgId)>>
                                   ELSE IF srcHasOrg THEN <<srcOrg>> ELSE <<>>
                              ELSE <<>>]]
    /\ origSrc = srcData
    /\ origDest = destData
    /\ dataCache = newDataCache
    /\ delta = emptyDelta
    /\ addResult = noResult
    /\ updResult = noResult
    /\ applied = [adds |-> 0, deletes |-> 0, updates |-> 0]
    /\ round = 0
    /\ pc = "start"
    /\ args = noCall
    /\ ret = noCall

\* the organizations were synchronised before the packages: getDelta on the
\* two organization datasets put them in the cache
SyncOrganizations ==
    /\ pc = "start"
    /\ kind = "packages"
    /\ ~dataCache.init
    /\ dataCache' = addData(addData(dataCache, remote["organizations"]["src"], "organizations", "src"),
                            remote["organizations"]["dest"], "organizations", "dest")
    /\ UNCHANGED <<args, ret, kind, ignoreList, remote, srcData, destData, origSrc, origDest,
                   delta, addResult, updResult, applied, round, pc>>

\* srcCKANDataset.getDelta(destCKANDataset)
GetDelta ==
    /\ pc \in {"start", "applied"}
    /\ round < MaxRounds
    /\ \E deleteOrder \in SetOrders(getUniqueIdentifiers(destData) \ getUniqueIdentifiers(srcData)) :
       \E addOrder \in SetOrders(getUniqueIdentifiers(srcData) \ getUniqueIdentifiers(destData)) :
          delta' = [deletes |-> getDeleteList(kind, deleteOrder),
                    adds |-> getAddList(kind, srcData, addOrder),
                    updates |-> setUpdateDatasets(getUpdatesList(kind, srcData, destData))]
    /\ dataCache' = addData(addData(dataCache, srcData, kind, "src"), destData, kind, "dest")
    /\ srcData' = jsonAfterComparable(kind, srcData, projectedIds(kind, srcData, destData, "src"))
    /\ destData' = jsonAfterComparable(kind, destData, projectedIds(kind, srcData, destData, "dest"))
    /\ addResult' = noResult
    /\ updResult' = noResult
    /\ round' = round + 1
    /\ pc' = "delta"
    /\ UNCHANGED <<args, ret, kind, ignoreList, remote, origSrc, origDest, applied>>

\* what a call of getAddData or getUpdateData leaves behind
AddDataReturns(r) ==
    /\ addResult' = [called |-> TRUE, ok |-> r.ok, data |-> r.data, passes |-> r.passes]
    /\ dataCache' = r.c

UpdateDataReturns(r) ==
    /\ updResult' = [called |-> TRUE, ok |-> r.ok, data |-> r.data, passes |-> r.passes]
    /\ dataCache' = r.c

\* deltaObj.getAddData()
GetAddData ==
    /\ pc = "delta"
    /\ ~addResult.called
    /\ AddDataReturns(getAddData(dataCache, kind, srcData, delta.adds))
    /\ UNCHANGED <<args, ret, kind, ignoreList, remote, srcData, destData, origSrc, origDest,
                   delta, updResult, applied, round, pc>>

\* deltaObj.getUpdateData()
GetUpdateData ==
    /\ pc = "delta"
    /\ ~updResult.called
    /\ UpdateDataReturns(getUpdateData(dataCache, kind, srcData, destData, delta.updates))
    /\ UNCHANGED <<args, ret, kind, ignoreList, remote, srcData, destData, origSrc, origDest,
                   delta, addResult, applied, round, pc>>

\* the payloads and deltaObj.getDeleteData() go to the destination instance;
\* both datasets are then read again from their instances
ApplyDelta ==
    /\ pc = "delta"
    /\ addResult.called /\ addResult.ok
    /\ updResult.called /\ updResult.ok
    /\ destData' = applyDelta(origDest, delta.deletes, addResult.data, updResult.data)
    /\ origDest' = destData'
    /\ srcData' = origSrc
    /\ remote' = [remote EXCEPT ![kind]["dest"] = destData']
    /\ applied' = [adds |-> Len(delta.adds), deletes |-> Len(delta.deletes),
                   updates |-> Cardinality(DOMAIN delta.updates)]
    /\ pc' = "applied"
    /\ UNCHANGED <<args, ret, kind, ignoreList, origSrc, dataCache, delta, addResult, updResult, round>>

Next ==
    \/ SyncOrganizations
    \/ GetDelta
    \/ GetAddData
    \/ GetUpdateData
    \/ ApplyDelta

Spec == Init /\ [][Next]_vars

---------------------------------------------------------------------------
(* The id cache on its own: the cache of one kind filled by any sequence   *)
(* of its population operations.  Each instance holds a subset of the      *)
(* records named KeyNames[i], with the ids the instance gave them.         *)

cacheRecord(dataOrigin, i) ==
    [f \in {"id", "name"} |->
        IF f = "name" THEN Str(KeyNames[i])
        ELSE IF dataOrigin = "src" THEN Str(SrcIdNames[i]) ELSE Str(DestIdNames[i])]

cacheRecordList(dataOrigin, held) ==
    LET present == SelectSeq([i \in KeyIndexes |-> i], LAMBDA i : i \in held)
    IN  [n \in 1..Len(present) |-> cacheRecord(dataOrigin, present[n])]

\* the identifiers a single record can be asked by
Identifiers ==
    Keys \cup {Str(SrcIdNames[i]) : i \in KeyIndexes} \cup {Str(DestIdNames[i]) : i \in KeyIndexes}

InitCache ==
    /\ kind \in {"users", "organizations"}
    /\ ignoreList = [t \in VALID_TRANSFORM_TYPES |-> {}]
    /\ \E srcHeld, destHeld \in SUBSET KeyIndexes :
          remote = [t \in VALID_TRANSFORM_TYPES |->
                       [o \in {"src", "dest"} |->
                           IF t = kind
                           THEN cacheRecordList(o, IF o = "src" THEN srcHeld ELSE destHeld)
                           ELSE <<>>]]
    /\ srcData = remote[kind]["src"]
    /\ destData = remote[kind]["dest"]
    /\ origSrc = srcData
    /\ origDest = destData
    /\ dataCache = newDataCache
    /\ delta = emptyDelta
    /\ addResult = noResult
    /\ updResult = noResult
    /\ applied = [adds |-> 0, deletes |-> 0, updates |-> 0]
    /\ round = 0
    /\ pc = "cache"
    /\ args = noCall
    /\ ret = noCall

cacheFrame == <<args, ret, kind, ignoreList, remote, srcData, destData, origSrc, origDest,
                delta, addResult, updResult, applied, round, pc>>

cacheQueryFrame == <<args, kind, ignoreList, remote, srcData, destData, origSrc, origDest,
                     delta, addResult, updResult, applied, round, pc>>

\* dataCache.addData(dataSet, dataOrigin) for the dataset of an instance, as
\* getDelta registers it
CacheAddData ==
    /\ pc = "cache"
    /\ \E dataOrigin \in {"src", "dest"} :
          /\ dataCache' = addData(dataCache, IF dataOrigin = "src" THEN srcData ELSE destData,
                                  kind, dataOrigin)
          /\ ret' = [op |-> "addData", dataOrigin |-> dataOrigin]
    /\ UNCHANGED cacheQueryFrame

\* dataCache.loadData(objType, autoFieldName): a bulk load of what is not loaded
CacheLoadData ==
    /\ pc = "cache"
    /\ dataCache.init
    /\ BagCardinality(dataCache.apiCalls) < MaxCalls
    /\ dataCache' = loadData(dataCache, kind)
    /\ ret' = [op |-> "loadData"]
    /\ UNCHANGED cacheQueryFrame

\* dataCache.loadSingleDataSet(objType, dataOrigin, autoFieldName, value)
CacheLoadSingle ==
    /\ pc = "cache"
    /\ dataCache.init
    /\ \E dataOrigin \in {"src", "dest"} : \E identifier \in Identifiers :
          LET r == loadSingleDataSet(dataCache, kind, dataOrigin, identifier)
          IN  /\ r.ok
              /\ BagCardinality(dataCache.apiCalls) < MaxCalls
              /\ dataCache' = r.c
              /\ ret' = [op |-> "loadSingleDataSet"]
    /\ UNCHANGED cacheQueryFrame

\* dataCache.src2DestRemap(autoFieldName, objType, autoValue)
CacheSrc2DestRemap ==
    /\ pc = "cache"
    /\ dataCache.init
    /\ BagCardinality(dataCache.apiCalls) < MaxCalls
    /\ \E autoValue \in Identifiers :
          LET r == src2DestRemap(dataCache, kind, autoValue)
          IN  /\ dataCache' = r.c
              /\ ret' = [op |-> "src2DestRemap", autoValue |-> autoValue,
                         calls |-> r.c.apiCalls (-) dataCache.apiCalls,
                         raised |-> ~r.ok, val |-> r.val]
    /\ UNCHANGED cacheQueryFrame

\* dataCache.getUserDefinedValue(autoFieldName, autoValue, userDefinedFieldName,
\* objType, origin)
CacheGetUserDefinedValue ==
    /\ pc = "cache"
    /\ dataCache.init
    /\ BagCardinality(dataCache.apiCalls) < MaxCalls
    /\ \E autoValue \in Identifiers : \E origin \in {"src", "dest"} :
          LET r == getUserDefinedValue(dataCache, autoValue, kind, origin)
          IN  /\ dataCache' = r.c
              /\ ret' = [op |-> "getUserDefinedValue", autoValue |-> autoValue,
                         calls |-> r.c.apiCalls (-) dataCache.apiCalls,
                         raised |-> ~r.ok, val |-> r.val]
    /\ UNCHANGED cacheQueryFrame

\* dataCache.isAutoValueInDest(autoFieldName, objType, autoValue)
CacheIsAutoValueInDest ==
    /\ pc = "cache"
    /\ dataCache.init
    /\ \E autoValue \in Identifiers :
          ret' = [op |-> "isAutoValueInDest", autoValue |-> autoValue,
                  val |-> isAutoValueInDest(dataCache, kind, autoValue)]
    /\ UNCHANGED dataCache
    /\ UNCHANGED cacheQueryFrame

NextCache ==
    \/ CacheAddData
    \/ CacheLoadData
    \/ CacheLoadSingle
    \/ CacheSrc2DestRemap
    \/ CacheGetUserDefinedValue
    \/ CacheIsAutoValueInDest

SpecCache == InitCache /\ [][NextCache]_vars

---------------------------------------------------------------------------
(* CKANDataSet as an object: its iteration counter and its record index    *)

\* CKANDataSet.__init__
CKANDataSet(jsonData, dataType) ==
    [jsonData |-> jsonData, dataType |-> dataType, iterCnt |-> 0,
     uniqueidRecordLookup |-> EmptyTable]

\* a reset that leaves the counter where it is
reset_keep(self) == self

reset(self) == [self EXCEPT !.iterCnt = 0]

\* __next__: the json object of the record returned and its position, or
\* StopIteration
next(self) ==
    IF self.iterCnt >= Len(self.jsonData)
    THEN [self |-> [self EXCEPT !.iterCnt = 0], stop |-> TRUE, pos |-> 0]
    ELSE [self |-> [self EXCEPT !.iterCnt = self.iterCnt + 1], stop |-> FALSE,
          pos |-> self.iterCnt + 1]

\* "for record in self": the positions visited until StopIteration
RECURSIVE forRecordIn(_, _)
forRecordIn(self, visited) ==
    LET n == next(self)
    IN  IF n.stop THEN [self |-> n.self, visited |-> visited]
        ELSE forRecordIn(n.self, Append(visited, n.pos))

\* CKANDataSet.getUniqueIdentifiers as a list, and the dataset after the call
DataSet_getUniqueIdentifiers(self) ==
    LET loop == forRecordIn(reset(self), <<>>)
    IN  [self |-> loop.self,
         val |-> [i \in 1..Len(loop.visited) |->
                     self.jsonData[loop.visited[i]][getUniqueField(recordConstructor(self.dataType))]]]

\* CKANDataSet.getRecordByUniqueId: the position of the record returned (0
\* for None); the index built on the first call holds, for every unique id,
\* the record that was visited last
DataSet_getRecordByUniqueId(self, uniqueValueToRetrieve) ==
    LET uniqueField == getUniqueField(recordConstructor(self.dataType))
    IN  IF DOMAIN self.uniqueidRecordLookup = {}
        THEN LET loop == forRecordIn(reset(self), <<>>)
                 ids == {self.jsonData[loop.visited[i]][uniqueField] : i \in 1..Len(loop.visited)}
                 lookup == [recordID \in ids |->
                               CHOOSE p \in SeqToSet(loop.visited) :
                                   /\ self.jsonData[p][uniqueField] = recordID
                                   /\ \A q \in SeqToSet(loop.visited) :
                                          self.jsonData[q][uniqueField] = recordID => q <= p]
             IN  [self |-> [loop.self EXCEPT !.uniqueidRecordLookup = lookup],
                  pos |-> IF uniqueValueToRetrieve \in ids THEN lookup[uniqueValueToRetrieve] ELSE 0]
        ELSE [self |-> self,
              pos |-> IF uniqueValueToRetrieve \in DOMAIN self.uniqueidRecordLookup
                      THEN self.uniqueidRecordLookup[uniqueValueToRetrieve] ELSE 0]

\* the json object of a record after it took part in a comparison as one of
\* the two records: getDiff projects both unless the input record is ignored
afterGetDiff(dataType, json, inputJson) ==
    IF isIgnore(dataType, inputJson) THEN json
    ELSE structAfterComparable(json, getUserPopulatedProperties(dataType))

\* the loop of CKANDataSet.__eq__ over the records of the input dataset:
\* it breaks at the first record that is not equal to the record of this
\* dataset with the same unique id; comparing a record with the None that
\* getRecordByUniqueId returned raises AttributeError
RECURSIVE eqLoop(_, _)
eqLoop(self, ckanDataSet) ==
    LET n == next(ckanDataSet)
        recordType == recordConstructor(ckanDataSet.dataType)
        inputRecord == ckanDataSet.jsonData[n.pos]
        found == DataSet_getRecordByUniqueId(self, inputRecord[getUniqueField(recordType)])
        compareRecord == self.jsonData[found.pos]
        healedInput == [n.self EXCEPT !.jsonData[n.pos] =
                            afterGetDiff(recordType, inputRecord, compareRecord)]
        healedSelf == [found.self EXCEPT !.jsonData[found.pos] =
                            afterGetDiff(recordType, compareRecord, compareRecord)]
    IN  IF n.stop
        THEN [raised |-> FALSE, retVal |-> TRUE, self |-> self, ckanDataSet |-> n.self]
        ELSE IF found.pos = 0
        THEN [raised |-> TRUE, retVal |-> FALSE, self |-> found.self, ckanDataSet |-> n.self]
        ELSE IF recordNe(recordType, inputRecord, compareRecord)
        THEN [raised |-> FALSE, retVal |-> FALSE, self |-> healedSelf,
              ckanDataSet |-> healedInput]
        ELSE eqLoop(healedSelf, healedInput)

\* validateTypeIsComparable: whether IncompatibleTypesException is raised
validateTypeIsComparable(dataObj1, dataObj2) == dataObj2.dataType # dataObj1.dataType

\* CKANDataSet.__eq__: what it returns or that it raised, and the two
\* datasets after the call
DataSet_eq(self, ckanDataSet) ==
    IF validateTypeIsComparable(self, ckanDataSet)
    THEN [raised |-> TRUE, retVal |-> FALSE, self |-> self, ckanDataSet |-> ckanDataSet]
    ELSE LET inputUniqueIds == DataSet_getUniqueIdentifiers(ckanDataSet)
             thisUniqueIds == DataSet_getUniqueIdentifiers(self)
         IN  IF SeqToSet(inputUniqueIds.val) = SeqToSet(thisUniqueIds.val)
             THEN eqLoop(thisUniqueIds.self, inputUniqueIds.self)
             ELSE [raised |-> FALSE, retVal |-> FALSE, self |-> thisUniqueIds.self,
                   ckanDataSet |-> inputUniqueIds.self]

---------------------------------------------------------------------------
(* Single calls on records, datasets and payloads: the initial state holds *)
(* the objects and the arguments of one call, the action of that call      *)
(* leaves what it returned in ret                                          *)

\* the json values a field of a record holds
FieldValues ==
    {None, Str(""), Str("A"), Str("B"), Num(0), Num(1), Bool(FALSE),
     List(<<>>), List(<<Str("x"), Str("y")>>), List(<<Str("y"), Str("x")>>),
     List(<<Str("x"), Str("x")>>), List(<<Dict("a" :> Str("x"))>>),
     Dict(EmptyTable), Dict("a" :> Str("x")), Dict("b" :> Str("y"))}

\* the json object of a record named name whose title is value
withTitle(name, value) ==
    [f \in {"id", "name", "title"} |->
        IF f = "id" THEN Str("s1") ELSE IF f = "name" THEN name ELSE value]

\* the json object of a record the api returned without a title
withoutTitle(name) == [f \in {"id", "name"} |-> IF f = "id" THEN Str("s1") ELSE name]

Structs == {withoutTitle(Str("k1"))} \cup {withTitle(Str("k1"), v) : v \in FieldValues}

\* user-field schemas: the entry of title is a leaf, a nested object, a list
\* of objects or a list of leaves
Schemas ==
    {Object([f \in {"name", "title"} |-> IF f = "name" THEN Leaf ELSE entry]) :
        entry \in {Leaf, Object("a" :> Leaf), ListOf(Object("a" :> Leaf)), ListOf(Leaf)}}

ProjectionCalls ==
    {[op |-> "getComparableStruct", struct |-> s, flds2Include |-> f] :
        s \in Structs, f \in Schemas}

\* the user-populated fields of a kind other than its unique field
userFields(dataType) ==
    DOMAIN getUserPopulatedProperties(dataType).m \ {getUniqueField(dataType)}

\* the records a dataset of n records is constructed from; variant 2 of a
\* record lacks a field of the schema
dataSetJson(dataType, n, variant) ==
    [i \in 1..n |-> srcRecord(dataType, i, IF i = 1 THEN variant ELSE 1, Str("s1"))]

\* a deep copy of jsonData that is left as it is, or in which the first
\* record is removed, or is given another unique key, or another value of
\* one user-populated field
changedJson(jsonData, change) ==
    CASE change = "same" -> jsonData
      [] change = "kind" -> jsonData
      [] change = "remove" -> Tail(jsonData)
      [] change = "rename" -> [jsonData EXCEPT ![1] = ("name" :> Str("k9")) @@ @]
      [] OTHER -> [jsonData EXCEPT ![1] = (change :> Str("Z")) @@ @]

\* two datasets: the second is constructed from a changed copy of the data
\* of the first, or from the same data as a dataset of another kind
DataSetCalls ==
    {[op |-> "dataset", change |-> change,
      self |-> CKANDataSet(dataSetJson(dataType, n, variant), dataType),
      input |-> CKANDataSet(changedJson(dataSetJson(dataType, n, variant), change),
                            IF change = "kind" THEN otherType ELSE dataType)] :
        dataType \in VALID_TRANSFORM_TYPES, otherType \in VALID_TRANSFORM_TYPES,
        n \in 1..NumKeys, variant \in 1..2,
        change \in {"same", "kind", "remove", "rename", "title", "url", "fullname",
                    "security_class"}}

\* a record and an input record it is compared with
CompareCalls ==
    {[op |-> "compare", dataType |-> dataType, selfJson |-> selfJson,
      inputType |-> inputType, inputJson |-> inputJson] :
        dataType \in {"groups", "organizations"}, inputType \in VALID_TRANSFORM_TYPES,
        selfJson \in Structs \cup {withTitle(Str("k2"), Str("A"))},
        inputJson \in Structs \cup {withTitle(Str("k2"), Str("A"))}}

\* a list of one or two payloads and a type-enforcement map for the title
EnforceCalls ==
    {[op |-> "enforceTypes",
      inputDataStruct |-> IF two THEN <<payload, withTitle(Str("k2"), Str("B"))>>
                          ELSE <<payload>>,
      enforceTypes |-> [fieldName \in {"title"} |-> canonical]] :
        payload \in Structs, two \in BOOLEAN,
        canonical \in {Str(""), List(<<>>), Dict(EmptyTable)}}

\* a list of one or two payloads and a default-value map for the title: the
\* default is a primitive, a list of primitives, a list of dicts or a dict
DefaultCalls ==
    {[op |-> "addRequiredDefaultValues",
      inputDataStruct |-> IF two THEN <<payload, withoutTitle(Str("k2"))>> ELSE <<payload>>,
      defaultFields |-> [fieldName \in {"title"} |-> default]] :
        payload \in Structs, two \in BOOLEAN,
        default \in {Str("D"), List(<<>>), List(<<Str("x")>>), List(<<Dict("a" :> Str("x"))>>),
                     Dict("a" :> Str("x"))}}

\* a package payload whose download_audience is audience, or is absent
packagePayload(securityClass, audience, present) ==
    LET base == [f \in {"name", "security_class"} |->
                    IF f = "name" THEN Str("k1") ELSE securityClass]
    IN  IF present THEN ("download_audience" :> audience) @@ base ELSE base

\* the configured transformer names of a kind and the update payloads of
\* getUpdateData when it reaches the custom transformers
TransformCalls ==
    {[op |-> "customTransform", dataType |-> dataType, customTransformers |-> names,
      updates |-> <<packagePayload(securityClass, audience, present)>>] :
        dataType \in VALID_TRANSFORM_TYPES \cup {"vocabularies"},
        names \in {<<n>> : n \in {"packageTransform", "fixSecurityClass", "noSuchMethod"}}
                 \cup {<<"packageTransform", "noSuchMethod">>,
                       <<"noSuchMethod", "packageTransform">>,
                       <<"packageTransform", "fixSecurityClass">>},
        securityClass \in {Str("HIGH-CONFIDENTIAL"), Str("LOW-PUBLIC")},
        audience \in {None, Str(""), Str("Government"), Str("Everyone")},
        present \in BOOLEAN}

\* the elements of an embedded list: two objects with a unique key, an
\* object that holds a list of its own, and a bare name
embeddedChildren ==
    {Dict("name" :> Str("k1")), Dict("name" :> Str("k2")),
     Dict(("name" :> Str("k2")) @@ ("extras" :> List(<<Dict("name" :> Str("k1"))>>))),
     Str("k1")}

childLists ==
    {<<>>} \cup {<<a>> : a \in embeddedChildren}
           \cup {<<a, b>> : a \in embeddedChildren, b \in embeddedChildren}

\* the comparable struct of an organization that embeds users, and holds a
\* list under a key that names no kind
embedding(users, tags) ==
    [f \in {"name", "users", "tags"} |->
        IF f = "name" THEN Str("k1") ELSE IF f = "users" THEN List(users) ELSE tags]

\* two comparable structs that differ in their embedded users at most
EmbeddedCalls ==
    {[op |-> "removeEmbeddedIgnores", dataType |-> "organizations",
      struct |-> embedding(users, tags), other |-> embedding(otherUsers, tags)] :
        users \in childLists, otherUsers \in childLists,
        tags \in {List(<<>>), List(<<Dict("name" :> Str("k1"))>>)}}

InitRecord ==
    /\ kind = "groups"
    /\ \E ignored \in {{}, {Str("k1")}} :
          ignoreList = [t \in VALID_TRANSFORM_TYPES |-> ignored]
    /\ remote = [t \in VALID_TRANSFORM_TYPES |-> [o \in {"src", "dest"} |-> <<>>]]
    /\ srcData = <<>>
    /\ destData = <<>>
    /\ origSrc = srcData
    /\ origDest = destData
    /\ dataCache = newDataCache
    /\ delta = emptyDelta
    /\ addResult = noResult
    /\ updResult = noResult
    /\ applied = [adds |-> 0, deletes |-> 0, updates |-> 0]
    /\ round = 0
    /\ pc = "call"
    /\ args \in ProjectionCalls \cup DataSetCalls \cup CompareCalls \cup EnforceCalls
                \cup DefaultCalls \cup TransformCalls \cup EmbeddedCalls
    /\ args.op = "dataset" =>
          /\ args.change \notin {"same", "kind", "remove", "rename"} =>
                args.change \in userFields(args.self.dataType)
          /\ args.change = "kind" <=> args.input.dataType # args.self.dataType
    /\ ret = noCall

recordFrame == <<kind, ignoreList, remote, srcData, destData, origSrc, origDest,
                 dataCache, delta, addResult, updResult, applied, round, pc>>

\* record.getComparableStruct(), and getComparableStruct again on what it
\* returned; the first call heals the json object of the record, ret.lacked
\* are the keys of the schema the object lacked before the call
CallGetComparableStruct ==
    /\ args.op = "getComparableStruct"
    /\ ret = noCall
    /\ LET newStruct == getComparableStruct(args.struct, args.flds2Include)
       IN  ret' = [op |-> "getComparableStruct",
                   lacked |-> DOMAIN args.flds2Include.m \ DOMAIN args.struct,
                   val |-> newStruct,
                   again |-> IF newStruct = Raised THEN Raised
                             ELSE getComparableStruct(newStruct, args.flds2Include)]
    /\ args' = [args EXCEPT !.struct = structAfterComparable(args.struct, args.flds2Include)]
    /\ UNCHANGED recordFrame

\* one __next__ call on a dataset: an iteration that is not run to its end
DataSetNext ==
    /\ args.op = "dataset"
    /\ args' = [args EXCEPT !.self = next(@).self]
    /\ ret' = [op |-> "next"]
    /\ UNCHANGED recordFrame

\* dataset.getRecordByUniqueId(uniqueValueToRetrieve)
DataSetGetRecordByUniqueId ==
    /\ args.op = "dataset"
    /\ \E i \in KeyIndexes :
          LET found == DataSet_getRecordByUniqueId(args.self, Str(KeyNames[i]))
          IN  /\ args' = [args EXCEPT !.self = found.self]
              /\ ret' = [op |-> "getRecordByUniqueId", pos |-> found.pos]
    /\ UNCHANGED recordFrame

\* dataCache.addData(dataset, dataOrigin) for a dataset of the source: the
\* cache registration iterates over the dataset
DataSetAddData ==
    /\ args.op = "dataset"
    /\ dataCache' = addData(dataCache, args.self.jsonData, args.self.dataType, "src")
    /\ args' = [args EXCEPT !.self = forRecordIn(reset(@), <<>>).self]
    /\ ret' = [op |-> "addData"]
    /\ UNCHANGED <<kind, ignoreList, remote, srcData, destData, origSrc, origDest,
                   delta, addResult, updResult, applied, round, pc>>

\* dataset.getUniqueIdentifiers(); ret.iterCnt is the counter before the call
DataSetGetUniqueIdentifiers ==
    /\ args.op = "dataset"
    /\ \E which \in {"self", "input"} :
          LET uniqueIds == DataSet_getUniqueIdentifiers(args[which])
          IN  /\ args' = [args EXCEPT ![which] = uniqueIds.self]
              /\ ret' = [op |-> "getUniqueIdentifiers", which |-> which,
                          iterCnt |-> args[which].iterCnt, val |-> uniqueIds.val]
    /\ UNCHANGED recordFrame

\* self == input; ret.self and ret.input are the two lists of json objects
\* before the call
DataSetEq ==
    /\ args.op = "dataset"
    /\ LET eq == DataSet_eq(args.self, args.input)
       IN  /\ args' = [args EXCEPT !.self = eq.self, !.input = eq.ckanDataSet]
           /\ ret' = [op |-> "eq", raised |-> eq.raised, retVal |-> eq.retVal,
                       self |-> args.self.jsonData, input |-> args.input.jsonData]
    /\ UNCHANGED recordFrame

\* self.getDiff(inputRecord), self == inputRecord, self != inputRecord and
\* the updates of two datasets that hold the two records; ret.thisComparable
\* and ret.inputComparable are the projections of the two records
CallCompare ==
    /\ args.op = "compare"
    /\ ret = noCall
    /\ LET diff == getDiffOfTypes(args.dataType, args.selfJson, args.inputType, args.inputJson)
       IN  ret' = [op |-> "compare", raised |-> FALSE, diff |-> diff,
                   eq |-> diff = {}, ne |-> ~(diff = {}),
                   eqReversed |-> getDiffOfTypes(args.inputType, args.inputJson,
                                                 args.dataType, args.selfJson) = {},
                   thisComparable |-> getComparableStruct(args.selfJson,
                                          getUserPopulatedProperties(args.dataType)),
                   inputComparable |-> getComparableStruct(args.inputJson,
                                          getUserPopulatedProperties(args.inputType)),
                   updates |-> IF args.inputType = args.dataType
                               THEN getUpdatesList(args.dataType, <<args.selfJson>>,
                                                   <<args.inputJson>>)
                               ELSE <<>>]
    /\ args' = IF isIgnore(args.dataType, args.inputJson) THEN args
               ELSE [args EXCEPT
                        !.selfJson = structAfterComparable(@, getUserPopulatedProperties(args.dataType)),
                        !.inputJson = structAfterComparable(@, getUserPopulatedProperties(args.inputType))]
    /\ UNCHANGED recordFrame

\* enforceTypes(inputDataStruct, enforceTypes) rewrites the payloads in
\* place and returns them; ret.before are the payloads before the call
CallEnforceTypes ==
    /\ args.op = "enforceTypes"
    /\ ret = noCall
    /\ ret' = [op |-> "enforceTypes", before |-> args.inputDataStruct,
                val |-> enforceTypes(args.inputDataStruct, args.enforceTypes)]
    /\ args' = [args EXCEPT !.inputDataStruct = enforceTypes(@, args.enforceTypes)]
    /\ UNCHANGED recordFrame

\* addRequiredDefaultValues(inputDataStruct, defaultFields), and the same
\* pass again on the payloads it returned; ret.before are the payloads
\* before the call
CallAddRequiredDefaultValues ==
    /\ args.op = "addRequiredDefaultValues"
    /\ ret = noCall
    /\ LET filled == addRequiredDefaultValues(args.inputDataStruct, args.defaultFields)
       IN  /\ ret' = [op |-> "addRequiredDefaultValues", before |-> args.inputDataStruct,
                       raised |-> hasRaised(filled), val |-> filled,
                       again |-> IF hasRaised(filled) THEN filled
                                 ELSE addRequiredDefaultValues(filled, args.defaultFields)]
           /\ args' = IF hasRaised(filled) THEN args
                      ELSE [args EXCEPT !.inputDataStruct = filled]
    /\ UNCHANGED recordFrame

\* the custom transformers of getUpdateData on the update payloads, which
\* they rewrite in place; ret.before are the payloads before the call
CallCustomTransform ==
    /\ args.op = "customTransform"
    /\ ret = noCall
    /\ LET done == customTransform(args.dataType, args.customTransformers, args.updates)
       IN  /\ ret' = [op |-> "customTransform", before |-> args.updates,
                       raised |-> done.raised, applied |-> done.applied, val |-> done.data]
           /\ args' = [args EXCEPT !.updates = done.data]
    /\ UNCHANGED recordFrame

\* record.removeEmbeddedIgnores(DataCell(struct)) on two comparable structs,
\* and the comparison getDiff makes of them
CallRemoveEmbeddedIgnores ==
    /\ args.op = "removeEmbeddedIgnores"
    /\ ret = noCall
    /\ ret' = [op |-> "removeEmbeddedIgnores", raised |-> FALSE,
               val |-> removeEmbeddedIgnores(args.struct),
               otherVal |-> removeEmbeddedIgnores(args.other),
               eq |-> diffOfComparables(args.dataType, args.struct, args.other) = {}]
    /\ UNCHANGED <<args, recordFrame>>

NextRecord ==
    \/ CallGetComparableStruct
    \/ CallRemoveEmbeddedIgnores
    \/ CallCustomTransform
    \/ CallAddRequiredDefaultValues
    \/ CallCompare
    \/ CallEnforceTypes
    \/ DataSetNext
    \/ DataSetGetRecordByUniqueId
    \/ DataSetAddData
    \/ DataSetGetUniqueIdentifiers
    \/ DataSetEq

SpecRecord == InitRecord /\ [][NextRecord]_vars

---------------------------------------------------------------------------
(* Properties.  In a state with pc = "delta" the variable delta is what    *)
(* getDelta returned for the datasets read from the two instances:         *)
(* origSrc and origDest are their records as read.                         *)

srcKeys == getUniqueIdentifiers(origSrc)

destKeys == getUniqueIdentifiers(origDest)

addKeys == {delta.adds[i]["name"] : i \in 1..Len(delta.adds)}

\* the projection of a record on a schema, missing fields filled with null
projection(record, schema) ==
    [f \in DOMAIN schema.m |-> IF f \in DOMAIN record THEN record[f] ELSE None]

\* C1: for every add payload and every id reference rule (property p, child
\* kind K), if the source record's p holds a source id a with
\* cache[K][src][a] = u and cache[K][dest][u] = d, then getAddData returns
\* and the payload has p = d.
C1_AddPayloadCarriesDestId ==
    (pc = "delta" /\ addResult.called) =>
        \A i \in 1..Len(delta.adds) : \A j \in 1..Len(getIdFieldConfigs(kind)) :
            LET rule == getIdFieldConfigs(kind)[j]
                a == getRecordByUniqueId(origSrc, delta.adds[i]["name"])[rule.property]
                srcTable == dataCache.cacheStruct[rule.obj_type]["src"]
                destTable == dataCache.cacheStruct[rule.obj_type]["dest"]
            IN  (a \in DOMAIN srcTable /\ srcTable[a] \in DOMAIN destTable) =>
                    /\ addResult.ok
                    /\ addResult.data[i][rule.property] = destTable[srcTable[a]]

\* C2: after getDelta no key of the ignore list of the kind is in deletes, is
\* the unique key of an add, or is a key of updates.
C2_IgnoreHidesKey ==
    pc = "delta" =>
        \A k \in getIgnoreList(kind) :
            /\ k \notin SeqToSet(delta.deletes)
            /\ k \notin addKeys
            /\ k \notin DOMAIN delta.updates

\* C3: the keys of adds, the deletes and the keys of updates are pairwise
\* disjoint and, with the keys on both sides whose records are equal, make
\* up exactly (src_keys \cup dest_keys) minus the ignore list of the kind.
C3_DeltaPartition ==
    pc = "delta" =>
        LET deleteKeys == SeqToSet(delta.deletes)
            updateKeys == DOMAIN delta.updates
            unchangedKeys == {k \in (srcKeys \cap destKeys) \ getIgnoreList(kind) :
                                 recordEq(kind, getRecordByUniqueId(origSrc, k),
                                          getRecordByUniqueId(origDest, k))}
        IN  /\ addKeys \cap deleteKeys = {}
            /\ addKeys \cap updateKeys = {}
            /\ deleteKeys \cap updateKeys = {}
            /\ unchangedKeys \cap (addKeys \cup deleteKeys \cup updateKeys) = {}
            /\ addKeys \cup deleteKeys \cup updateKeys \cup unchangedKeys
                   = (srcKeys \cup destKeys) \ getIgnoreList(kind)

\* C4: deletes is (dest_keys - src_keys) - ignore, and adds holds exactly one
\* entry per key of (src_keys - dest_keys) - ignore, the projection of the
\* source record with that key on the user fields of the kind.
C4_AddsAndDeletesAreSetDifferences ==
    pc = "delta" =>
        LET expectDeletes == (destKeys \ srcKeys) \ getIgnoreList(kind)
            expectAdds == (srcKeys \ destKeys) \ getIgnoreList(kind)
        IN  /\ SeqToSet(delta.deletes) = expectDeletes
            /\ Len(delta.deletes) = Cardinality(expectDeletes)
            /\ Len(delta.adds) = Cardinality(expectAdds)
            /\ \A k \in expectAdds : \E i \in 1..Len(delta.adds) :
                   delta.adds[i] = projection(getRecordByUniqueId(origSrc, k),
                                              getUserPopulatedProperties(kind))

\* C5: k is a key of updates exactly when k is on both sides, is not in the
\* ignore list of the kind and the source record differs from the
\* destination record; updates[k] is the json of the source record.
C5_UpdatesAreChangedCommonRecords ==
    pc = "delta" =>
        /\ DOMAIN delta.updates =
               {k \in srcKeys \cap destKeys :
                   /\ k \notin getIgnoreList(kind)
                   /\ recordNe(recordConstructor(kind), getRecordByUniqueId(origSrc, k),
                               getRecordByUniqueId(origDest, k))}
        /\ \A k \in DOMAIN delta.updates : delta.updates[k] = getRecordByUniqueId(srcData, k)
        /\ (\A k \in srcKeys \cup destKeys :
               /\ k \in srcKeys \cap destKeys
               /\ projection(getRecordByUniqueId(origSrc, k), getUserPopulatedProperties(kind))
                    = projection(getRecordByUniqueId(origDest, k), getUserPopulatedProperties(kind)))
           => delta = emptyDelta

C7_TransformersRunOnAdds ==
    (pc = "delta" /\ addResult.called /\ addResult.ok
       /\ getCustomUpdateTransformations(kind) # <<>>) =>
        /\ callCustomMethods(getCustomUpdateTransformations(kind), 1, addResult.data) = addResult.data
        /\ \A i \in 1..Len(addResult.data) :
               ("resource_status" \in DOMAIN addResult.data[i]
                  /\ addResult.data[i]["resource_status"] = Str("historicalArchive")) =>
                   /\ "retention_expiry_date" \in DOMAIN addResult.data[i]
                   /\ addResult.data[i]["retention_expiry_date"] = Str("2222-02-02")

\* the json objects a record comparison looks at: a key on both sides that
\* the record's ignore test lets through
comparedKeys ==
    {k \in srcKeys \cap destKeys :
        ~isIgnore(recordConstructor(kind), getRecordByUniqueId(origDest, k))}

rawProjectionsDiffer(k) ==
    Diff(projection(getRecordByUniqueId(origSrc, k),
                    getUserPopulatedProperties(recordConstructor(kind))),
         projection(getRecordByUniqueId(origDest, k),
                    getUserPopulatedProperties(recordConstructor(kind)))) # {}

transformedProjectionsDiffer(k) ==
    LET methods == getCustomUpdateTransformations(recordConstructor(kind))
        schema == getUserPopulatedProperties(recordConstructor(kind))
    IN  Diff(callCustomMethods(methods, 1, <<projection(getRecordByUniqueId(origSrc, k), schema)>>)[1],
             callCustomMethods(methods, 1, <<projection(getRecordByUniqueId(origDest, k), schema)>>)[1]) # {}

C9_ForwardAndReverseAreInverse ==
    \A K \in VALID_TRANSFORM_TYPES : \A o \in {"src", "dest"} :
        \A x \in DOMAIN dataCache.cacheStruct[K][o] :
            /\ dataCache.cacheStruct[K][o][x] \in DOMAIN dataCache.reverseStruct[K][o]
            /\ dataCache.reverseStruct[K][o][dataCache.cacheStruct[K][o][x]] = x

\* C10: the jsonData of every record of the two datasets is what it was when
\* the dataset was read, whatever getDelta, getAddData and getUpdateData
\* calls were made since.
C10_RecordsAreNotMutated ==
    /\ srcData = origSrc
    /\ destData = origDest


\* C11: every add payload holds, under each configured add-auto-field, the
\* value of the source record with the payload's unique key; the update
\* payload under key k holds, under each configured update-auto-field, the
\* value of the destination record with key k.
C11_AutoFieldsFromTheCorrectSide ==
    /\ (pc = "delta" /\ addResult.called /\ addResult.ok) =>
           \A i \in 1..Len(addResult.data) : \A j \in 1..Len(getFieldsToIncludeOnAdd(kind)) :
               LET f == getFieldsToIncludeOnAdd(kind)[j]
               IN  /\ f \in DOMAIN addResult.data[i]
                   /\ addResult.data[i][f]
                        = getRecordByUniqueId(origSrc, addResult.data[i]["name"])[f]
    /\ (pc = "delta" /\ updResult.called /\ updResult.ok) =>
           \A k \in DOMAIN updResult.data : \A j \in 1..Len(getFieldsToIncludeOnUpdate(kind)) :
               LET f == getFieldsToIncludeOnUpdate(kind)[j]
               IN  /\ f \in DOMAIN updResult.data[k]
                   /\ updResult.data[k][f] = getRecordByUniqueId(origDest, k)[f]

\* both materialisations returned payloads with auto-generated fields, and
\* the source record of an update holds another id than the destination's
C11_Witness ==
    /\ pc = "delta"
    /\ addResult.called /\ addResult.ok /\ Len(addResult.data) > 0
    /\ getFieldsToIncludeOnAdd(kind) # <<>>
    /\ updResult.called /\ updResult.ok
    /\ \E k \in DOMAIN updResult.data :
           getRecordByUniqueId(origSrc, k)["id"] # getRecordByUniqueId(origDest, k)["id"]


\* the id reference of rule j in the source record with unique key k is
\* unknown to the source tables of the cache
unknownToSource(k, j) ==
    LET rule == getIdFieldConfigs(kind)[j]
        a == getRecordByUniqueId(origSrc, k)[rule.property]
    IN  /\ a \notin DOMAIN dataCache.cacheStruct[rule.obj_type]["src"]
        /\ a \notin DOMAIN dataCache.reverseStruct[rule.obj_type]["src"]

\* ... and is an auto value of the destination, so that remapIdFields keeps it
knownToDest(k, j) ==
    LET rule == getIdFieldConfigs(kind)[j]
    IN  isAutoValueInDest(dataCache, rule.obj_type,
                          getRecordByUniqueId(origSrc, k)[rule.property])

\* C12 as stated: when an id reference of a payload is neither a key of
\* cache[K][src] nor found through the reverse source table, getAddData and
\* getUpdateData raise and return no payload at all.
C12_UnknownReferenceAborts ==
    /\ (pc = "delta" /\ addResult.called) =>
           ((\E k \in addKeys : \E j \in 1..Len(getIdFieldConfigs(kind)) : unknownToSource(k, j))
               => (~addResult.ok /\ addResult.data = <<>>))
    /\ (pc = "delta" /\ updResult.called) =>
           ((\E k \in DOMAIN delta.updates : \E j \in 1..Len(getIdFieldConfigs(kind)) :
                 unknownToSource(k, j))
               => (~updResult.ok /\ DOMAIN updResult.data = {}))

\* C12 amended: when an id reference of a payload is neither a key of
\* cache[K][src], nor found through the reverse source table, nor already an
\* auto value of the destination (reverse dest table), getAddData and
\* getUpdateData raise and return no payload at all.
C12_UnknownReferenceAbortsUnlessInDest ==
    /\ (pc = "delta" /\ addResult.called) =>
           ((\E k \in addKeys : \E j \in 1..Len(getIdFieldConfigs(kind)) :
                 unknownToSource(k, j) /\ ~knownToDest(k, j))
               => (~addResult.ok /\ addResult.data = <<>>))
    /\ (pc = "delta" /\ updResult.called) =>
           ((\E k \in DOMAIN delta.updates : \E j \in 1..Len(getIdFieldConfigs(kind)) :
                 unknownToSource(k, j) /\ ~knownToDest(k, j))
               => (~updResult.ok /\ DOMAIN updResult.data = {}))

\* getAddData and getUpdateData were both called on payloads with a
\* reference unknown to the source and to the destination, both raised
C12_Witness ==
    /\ pc = "delta"
    /\ addResult.called /\ ~addResult.ok
    /\ updResult.called /\ ~updResult.ok
    /\ \E k \in addKeys : unknownToSource(k, 1) /\ ~knownToDest(k, 1)
    /\ \E k \in DOMAIN delta.updates : unknownToSource(k, 1) /\ ~knownToDest(k, 1)


---------------------------------------------------------------------------
(* Projection *)

\* C13: projection is idempotent: getComparableStruct applied with the same
\* schema to a projection it returned gives that projection again
C13_ProjectionIsIdempotent ==
    (ret.op = "getComparableStruct" /\ ret.val # Raised) => ret.again = ret.val

\* a record whose json object holds more than the schema names was projected
\* on a schema with a nested entry, and projected again
C13_Witness ==
    /\ ret.op = "getComparableStruct"
    /\ ret.val # Raised
    /\ args.flds2Include.m["title"] = ListOf(Object("a" :> Leaf))
    /\ ret.val["title"] = List(<<Dict("a" :> Str("x"))>>)
    /\ ret.again = ret.val
    /\ "id" \notin DOMAIN ret.val

\* C14: a key the schema names and the record lacks is healed to null: the
\* call does not raise and the projection holds null under the key, whatever
\* the schema entry of the key is (leaf, nested object, list)
C14_MissingFieldIsHealedToNull ==
    (ret.op = "getComparableStruct" /\ ret.lacked # {}) =>
        /\ ret.val # Raised
        /\ \A key \in ret.lacked : ret.val[key] = None


---------------------------------------------------------------------------
(* Datasets *)

\* the json object of the record of jsonData whose unique key is k
recordOf(jsonData, k) == jsonData[CHOOSE i \in 1..Len(jsonData) : jsonData[i]["name"] = k]

\* C15: two datasets of the same kind are equal if and only if they have
\* the same set of unique keys and the records of the kind with the same key
\* are equal; so datasets built from the same data are equal, and removing
\* a record, changing the unique key of a record or changing the value of a
\* user-populated field of a record makes them unequal
C15_DatasetEquality ==
    (ret.op = "eq" /\ ~ret.raised) =>
        /\ ret.retVal <=>
              /\ getUniqueIdentifiers(ret.self) = getUniqueIdentifiers(ret.input)
              /\ \A k \in getUniqueIdentifiers(ret.self) :
                     recordEq(args.self.dataType, recordOf(ret.input, k), recordOf(ret.self, k))
        /\ args.change = "same" => ret.retVal
        /\ args.change # "same" => ~ret.retVal

\* C16: getUniqueIdentifiers returns one identifier per record, in dataset
\* order, wherever earlier iterations, lookups or cache registrations left
\* the iteration counter
C16_OneIdentifierPerRecord ==
    ret.op = "getUniqueIdentifiers" =>
        /\ Len(ret.val) = Len(args[ret.which].jsonData)
        /\ \A i \in 1..Len(ret.val) : ret.val[i] = args[ret.which].jsonData[i]["name"]

\* getUniqueIdentifiers was called on a dataset of several records whose
\* counter an unfinished iteration had left in the middle
C16_Witness ==
    /\ ret.op = "getUniqueIdentifiers"
    /\ ret.iterCnt > 0
    /\ Len(ret.val) > 1
    /\ ret.val = [i \in 1..Len(ret.val) |-> args[ret.which].jsonData[i]["name"]]


---------------------------------------------------------------------------
(* Equality of records *)

\* two records of one kind were compared
comparedAsOneKind ==
    /\ ret.op = "compare"
    /\ args.inputType = args.dataType

\* C17: two records of one kind whose projections differ only in fields
\* that hold null, "", [] or {} on both sides are equal and give no update
C17_EmptyEquivalence ==
    (/\ comparedAsOneKind
     /\ \A f \in DOMAIN ret.thisComparable :
            \/ ret.thisComparable[f] = ret.inputComparable[f]
            \/ {ret.thisComparable[f], ret.inputComparable[f]}
                    \subseteq {None, Str(""), List(<<>>), Dict(EmptyTable)})
    => (ret.eq /\ ~ret.ne /\ ret.diff = {} /\ ret.updates = <<>>)

\* a record whose title is null was compared with a record of an unignored
\* key whose title is {}
C17_Witness ==
    /\ comparedAsOneKind
    /\ ~isIgnore(args.dataType, args.inputJson)
    /\ ret.thisComparable["title"] = None
    /\ ret.inputComparable["title"] = Dict(EmptyTable)
    /\ ret.eq
    /\ ret.updates = <<>>

\* the sequences a and b hold the same elements the same number of times
sameMultiset(a, b) ==
    /\ Len(a) = Len(b)
    /\ \E pairing \in Permutations(1..Len(a)) : \A i \in 1..Len(a) : a[i] = b[pairing[i]]

\* C18: two records of one kind whose projections are identical except for
\* the order of the elements of list-valued fields are equal and give no
\* update
C18_ListOrderIsIrrelevant ==
    (/\ comparedAsOneKind
     /\ \A f \in DOMAIN ret.thisComparable :
            \/ ret.thisComparable[f] = ret.inputComparable[f]
            \/ /\ ret.thisComparable[f].t = "list"
               /\ ret.inputComparable[f].t = "list"
               /\ sameMultiset(ret.thisComparable[f].e, ret.inputComparable[f].e))
    => (ret.eq /\ ~ret.ne /\ ret.diff = {} /\ ret.updates = <<>>)

\* a record whose title is ["x", "y"] was compared with a record of an
\* unignored key whose title is ["y", "x"]
C18_Witness ==
    /\ comparedAsOneKind
    /\ ~isIgnore(args.dataType, args.inputJson)
    /\ ret.thisComparable["title"] = List(<<Str("x"), Str("y")>>)
    /\ ret.inputComparable["title"] = List(<<Str("y"), Str("x")>>)
    /\ ret.eq
    /\ ret.updates = <<>>

\* C19: comparing or diffing two records of different kinds, and comparing
\* two datasets of different kinds, raises an error
C19_DifferentKindsRaise ==
    /\ (ret.op = "compare" /\ args.inputType # args.dataType) => ret.raised
    /\ (ret.op = "eq" /\ args.input.dataType # args.self.dataType) => ret.raised


---------------------------------------------------------------------------
(* Type enforcement *)

\* C20: enforceTypes replaces the value of a field of the type-enforcement
\* map with the canonical empty exactly when the type of the value differs
\* from the type of the canonical empty and the value is null, "", [] or {};
\* every other value is left as it is
C20_OnlyEmptyEquivalentValuesAreRewritten ==
    ret.op = "enforceTypes" =>
        \A iterVal \in 1..Len(ret.before) :
            \A fieldName \in DOMAIN args.enforceTypes \cap DOMAIN ret.before[iterVal] :
                ret.val[iterVal][fieldName] =
                    IF /\ TypeOf(ret.before[iterVal][fieldName])
                            # TypeOf(args.enforceTypes[fieldName])
                       /\ ret.before[iterVal][fieldName]
                            \in {None, Str(""), List(<<>>), Dict(EmptyTable)}
                    THEN args.enforceTypes[fieldName]
                    ELSE ret.before[iterVal][fieldName]


---------------------------------------------------------------------------
(* Default values *)

\* C21: after addRequiredDefaultValues every field of the default-value map
\* is in every payload; a field that was absent holds the configured
\* default, a field that held a primitive value keeps it, and the pass
\* applied a second time changes nothing
C21_DefaultsFillOnlyWhatIsAbsent ==
    ret.op = "addRequiredDefaultValues" =>
        /\ ~ret.raised
        /\ \A iterVal \in 1..Len(ret.before) : \A fieldName \in DOMAIN args.defaultFields :
              /\ fieldName \in DOMAIN ret.val[iterVal]
              /\ fieldName \notin DOMAIN ret.before[iterVal] =>
                    ret.val[iterVal][fieldName] = args.defaultFields[fieldName]
              /\ (/\ fieldName \in DOMAIN ret.before[iterVal]
                  /\ ret.before[iterVal][fieldName].t \in {"str", "int", "bool"}) =>
                    ret.val[iterVal][fieldName] = ret.before[iterVal][fieldName]
        /\ ret.again = ret.val


---------------------------------------------------------------------------
(* Custom transformers *)

\* the kind is unknown, or has no transformer class, or one of the names
\* configured for it is not a method of the class
invalidTransformation ==
    \/ args.dataType \notin VALID_TRANSFORM_TYPES
    \/ args.dataType \notin getClasses
    \/ \E i \in 1..Len(args.customTransformers) :
          args.customTransformers[i] \notin packagesMethodNames

\* C22: an unknown kind, a kind without transformer class or a name that is
\* no method of the class makes the MethodMapping raise before any of the
\* configured transformers is applied to any payload
C22_TransformerNamesFailFast ==
    (ret.op = "customTransform" /\ invalidTransformation) =>
        (ret.raised /\ ret.applied = 0 /\ ret.val = ret.before)

\* packageTransform, which would have rewritten the payload, was configured
\* before a name that is no method, and the call raised
C22_Witness ==
    /\ ret.op = "customTransform"
    /\ args.dataType = "packages"
    /\ args.customTransformers = <<"packageTransform", "noSuchMethod">>
    /\ ret.before[1]["security_class"] = Str("HIGH-CONFIDENTIAL")
    /\ ret.raised
    /\ ret.val = ret.before

\* C23: a package payload that packageTransform received without
\* download_audience, or with download_audience null, is returned with
\* download_audience "Public"
C23_DownloadAudienceCoercion ==
    (/\ ret.op = "customTransform"
     /\ ~ret.raised
     /\ \E i \in 1..Len(args.customTransformers) : args.customTransformers[i] = "packageTransform")
    => \A iterVal \in 1..Len(ret.before) :
          (\/ "download_audience" \notin DOMAIN ret.before[iterVal]
           \/ ret.before[iterVal]["download_audience"] = None)
          => /\ "download_audience" \in DOMAIN ret.val[iterVal]
             /\ ret.val[iterVal]["download_audience"] = Str("Public")


---------------------------------------------------------------------------
(* Order of the delta *)

\* C24: getDelta visits the unique keys in ascending order: the entries of
\* deletes and the entries of adds are in ascending order of unique key, so
\* that two runs on the same snapshots give the same sequences
C24_DeltaOrderIsSorted ==
    pc = "delta" =>
        /\ \A i, j \in 1..Len(delta.deletes) :
              i < j => KeyIndex(delta.deletes[i]) < KeyIndex(delta.deletes[j])
        /\ \A i, j \in 1..Len(delta.adds) :
              i < j => KeyIndex(delta.adds[i]["name"]) < KeyIndex(delta.adds[j]["name"])


---------------------------------------------------------------------------
(* Order of the materialisation passes *)

\* the place of a pass in the order filter, auto-fields, defaults, type
\* enforcement, id remapping, custom transformers
passRank(pass) ==
    CASE pass = "filter" -> 1
      [] pass = "auto" -> 2
      [] pass = "defaults" -> 3
      [] pass = "enforce" -> 4
      [] pass = "remap" -> 5
      [] OTHER -> 6

inPassOrder(passes) ==
    \A i, j \in 1..Len(passes) : i < j => passRank(passes[i]) < passRank(passes[j])

\* C25: getAddData and getUpdateData run their passes in the order filter,
\* auto-fields, defaults, type enforcement, id remapping, custom
\* transformers: type enforcement and default filling run before the id
\* remapping
C25_PassOrder ==
    /\ (pc = "delta" /\ addResult.called) => inPassOrder(addResult.passes)
    /\ (pc = "delta" /\ updResult.called) => inPassOrder(updResult.passes)


---------------------------------------------------------------------------
\* the times the list operation of the api was called for a kind on an instance
listCount(c, dataType, dataOrigin) ==
    CopiesIn([op |-> "list", dataType |-> dataType, dataOrigin |-> dataOrigin, query |-> None],
             c.apiCalls)

\* getDelta has registered the records of the kind on the instance with addData
registered(dataOrigin) ==
    \/ dataCache.reverseStruct[kind][dataOrigin] # EmptyTable
    \/ ret.op = "addData" /\ ret.dataOrigin = dataOrigin

\* C26: over any sequence of cache queries the list operation of the api is
\* called at most once for a kind on an instance, also when the instance
\* answered with an empty list, and it is never called for a kind and
\* instance that getDelta has registered.
C26_BulkLoadOnFirstTouchOnly ==
    [][\A dataOrigin \in {"src", "dest"} :
          /\ listCount(dataCache', kind, dataOrigin) <= 1
          /\ registered(dataOrigin) =>
                 listCount(dataCache', kind, dataOrigin) = listCount(dataCache, kind, dataOrigin)]_vars


---------------------------------------------------------------------------
\* the single-record loads among some api calls
showCalls(calls) == {call \in BagToSet(calls) : call.op = "show"}

\* the user key src2DestRemap resolves autoValue to once the kind is loaded;
\* None when it resolves to nothing
resolvedUserValue(c, objType, autoValue) ==
    IF autoValue \in DOMAIN c.cacheStruct[objType]["dest"]
    THEN c.cacheStruct[objType]["dest"][autoValue]
    ELSE IF autoValue \in DOMAIN c.reverseStruct[objType]["src"]
         THEN c.reverseStruct[objType]["src"][autoValue]
         ELSE None

\* the auto values of the records the destination holds under an identifier
destAutoValues(objType, identifier) ==
    {remote[objType]["dest"][i]["id"] : i \in showMatches(objType, "dest", identifier)}

---------------------------------------------------------------------------
\* C28: for an initialised field and kind, isAutoValueInDest(f, K, v) answers
\* true exactly when v is a key of the reverse destination table of (f, K);
\* the call leaves cacheStruct and reverseStruct as they were and makes no
\* bulk and no single-record load.
C28_MembershipCheckIsReadOnly ==
    [][ret'.op = "isAutoValueInDest" =>
          /\ ret'.val = (ret'.autoValue \in DOMAIN dataCache.reverseStruct[kind]["dest"])
          /\ dataCache'.cacheStruct = dataCache.cacheStruct
          /\ dataCache'.reverseStruct = dataCache.reverseStruct
          /\ dataCache'.apiCalls = dataCache.apiCalls]_vars

\* the check answered true for an auto value of the destination while the
\* forward destination table, which a load would fill, holds nothing
C28_Witness ==
    /\ ret.op = "isAutoValueInDest"
    /\ ret.val
    /\ ret.autoValue \in DOMAIN dataCache.reverseStruct[kind]["dest"]
    /\ dataCache.cacheStruct[kind]["src"] = EmptyTable


---------------------------------------------------------------------------
\* the child of a list embedded under the key of kind dataType has a unique
\* key that is in the ignore list of the kind
ignoredChild(dataType, child) ==
    /\ child.t = "dict"
    /\ getUniqueField(dataType) \in DOMAIN child.d
    /\ child.d[getUniqueField(dataType)] \in getIgnoreList(dataType)

\* a value without the ignored children of the lists under keys that name a
\* kind, and with every other list as it is
RECURSIVE strippedExactly(_)
strippedExactly(value) ==
    CASE value.t = "dict" ->
            Dict([key \in DOMAIN value.d |->
                     IF key \in VALID_TRANSFORM_TYPES /\ value.d[key].t = "list"
                     THEN LET kept == SelectSeq(value.d[key].e,
                                                LAMBDA child : ~ignoredChild(key, child))
                          IN  List([n \in 1..Len(kept) |-> strippedExactly(kept[n])])
                     ELSE strippedExactly(value.d[key])])
      [] value.t = "list" -> List([n \in 1..Len(value.e) |-> strippedExactly(value.e[n])])
      [] OTHER -> value

\* C29: removeEmbeddedIgnores removes from a list under a key that names a
\* kind exactly the elements whose unique key is in the ignore list of that
\* kind, keeps the other elements in their order and leaves the lists under
\* keys that name no kind as they are; two records that differ in ignored
\* embedded children only are equal.
C29_EmbeddedIgnoresStrippedExactly ==
    ret.op = "removeEmbeddedIgnores" =>
        /\ ret.val = strippedExactly(Dict(args.struct)).d
        /\ strippedExactly(Dict(args.struct)) = strippedExactly(Dict(args.other)) => ret.eq


---------------------------------------------------------------------------
\* C30: for two records a and b of one kind, a == b and b == a give the same
\* result, also when the unique key of exactly one of them is in the ignore
\* list of the kind.
C30_RecordEqualityIsSymmetric ==
    (ret.op = "compare" /\ args.inputType = args.dataType) => ret.eq = ret.eqReversed

====
